---- MODULE Spec2Model ----
(***************************************************************************)
(* Confirmation-gated trading halt of the FinTech risk operations backend: *)
(* backend/routers/chat.py (chat, _execute_tool, the pending-confirmation  *)
(* store, cleanup_expired_confirmations), backend/routers/chat_confirm.py  *)
(* (confirm_action), backend/services/rbac.py, backend/services/           *)
(* guardrails.py, backend/tools/oms.py and backend/infra/audit.py.         *)
(*                                                                         *)
(* Python values: a str is [t |-> "str", s |-> <<characters>>], None is    *)
(* [t |-> "none"]; a dict is a function whose DOMAIN is its key set.       *)
(* Wall-clock time (time.time()) is the integer variable now, in seconds.  *)
(* A confirm id "CONFIRM_<12 hex of uuid4>" is the index of the uuid drawn *)
(* (uuid4 values are taken to be pairwise different); 0 stands for None.   *)
(***************************************************************************)
EXTENDS Integers, Sequences, FiniteSets, TLC

VARIABLES
    USER_DB,                \* rbac._USER_DB: user id -> [role, books]
    pending_confirmations,  \* chat._pending_confirmations: confirm id -> entry
    now,                    \* the wall clock read by time.time()
    events,                 \* number of clock advances, role and flag edits so far
    uuids,                  \* number of uuid4 values drawn for confirm ids
    audit,                  \* the audit sink: sequence of appended records
    halts,                  \* history: every invocation of oms.halt_trading
    resp,                   \* the response to the latest chat/confirm request
    tasks,                  \* confirm requests accepted by the event loop
    running,                \* the task that holds the event loop, 0 if none
    eval,                   \* the function call under evaluation (pure functions)
    FEATURE_RISK_CHAT,      \* os.getenv("FEATURE_RISK_CHAT", "0") == "1"
    TECH_SYMBOLS,           \* server.TECH_SYMBOLS: ticker -> shares
    server_companies_store, \* server.companies_store: ticker -> [shares, active]
    HEALTHCARE_SYMBOLS,     \* health.HEALTHCARE_SYMBOLS: ticker -> shares
    health_companies_store  \* health.companies_store: ticker -> [shares, active]

\* the module-level dictionaries of the two portfolio routers
portfolio_state == <<TECH_SYMBOLS, server_companies_store,
                     HEALTHCARE_SYMBOLS, health_companies_store>>

vars == <<USER_DB, pending_confirmations, now, events, uuids,
          audit, halts, resp, tasks, running, eval, FEATURE_RISK_CHAT,
          TECH_SYMBOLS, server_companies_store,
          HEALTHCARE_SYMBOLS, health_companies_store>>

----------------------------------------------------------------------------
(* Bounds of the model *)

MaxConfirms == 1
MaxEvents == 2
MaxTasks == 2
MaxReasonLen == 11   \* non-blank characters of a reason
MaxPad == 1          \* blanks before and after them
MaxDocs == 2         \* articles counted as positive, as negative
MaxCompanies == 2    \* holdings of a portfolio
MaxIndustries == 7   \* distinct industries of a portfolio
MaxVolSteps == 24    \* volatilities 0%, 5%, ..., 120%
MaxShockQuarters == 6 \* shocks -1.5, -1.25, ..., 1.5
MaxLive == 2         \* confirm ids drawn in the runs about the store itself
MaxCalls == 3        \* tool calls in one model response
MaxShares == 1       \* share count of an add or update-shares request

(* Program constants *)

TTL == 300
MinReasonLen == 10

----------------------------------------------------------------------------
(* Python values *)

None == [t |-> "none"]
Str(s) == [t |-> "str", s |-> s]
Rep(c, n) == [i \in 1..n |-> c]

\* a key a dict does not have
Absent == [t |-> "absent"]

\* Python truthiness of a str-or-None value
Truthy(v) == v.t = "str" /\ Len(v.s) > 0

\* dict.get(key, default)
Get(d, k, default) == IF k \in DOMAIN d THEN d[k] ELSE default

RECURSIVE lstrip(_)
lstrip(s) == IF s # <<>> /\ Head(s) = " " THEN lstrip(Tail(s)) ELSE s

RECURSIVE rstrip(_)
rstrip(s) ==
    IF s # <<>> /\ s[Len(s)] = " " THEN rstrip(SubSeq(s, 1, Len(s) - 1)) ELSE s

\* str.strip()
strip(s) == rstrip(lstrip(s))

----------------------------------------------------------------------------
(* backend/services/rbac.py *)

ValidRoles == {"USER", "RISK", "ADMIN"}

InitUserDB ==
    [u \in {"user1", "user2", "admin1", "demo"} |->
        CASE u = "user1"  -> [role |-> "USER",  books |-> <<"PM_BOOK1">>]
          [] u = "user2"  -> [role |-> "RISK",  books |-> <<"PM_BOOK1", "PM_BOOK2", "HF_BOOK1">>]
          [] u = "admin1" -> [role |-> "ADMIN", books |-> <<"*">>]
          [] u = "demo"   -> [role |-> "RISK",  books |-> <<"PM_BOOK1", "TECH_DESK", "HEALTH_DESK">>]]

get_role_unvalidated(db, user_id) ==
    IF user_id \in DOMAIN db THEN db[user_id].role ELSE "USER"

get_role(db, user_id) ==
    LET role == IF user_id \in DOMAIN db THEN db[user_id].role ELSE "USER"
    IN  IF role \notin ValidRoles THEN "USER" ELSE role

get_all_books ==
    <<"PM_BOOK1", "PM_BOOK2", "HF_BOOK1", "HF_BOOK2", "TECH_DESK", "HEALTH_DESK",
      "CLOUD_DESK", "AI_DESK", "CYBER_DESK", "MEDDEV_DESK", "BIOTECH_DESK">>

\* an unknown user gets the default list; "*" stands for every book
get_books(db, user_id) ==
    IF user_id \notin DOMAIN db
    THEN <<"PM_BOOK1">>
    ELSE LET books == db[user_id].books
         IN  IF \E i \in DOMAIN books : books[i] = "*" THEN get_all_books ELSE books

\* the dict after _USER_DB[user_id] = {"role": role, "books": books}
add_user_db(db, user_id, role, books) ==
    [u \in DOMAIN db \cup {user_id} |->
        IF u = user_id THEN [role |-> role, books |-> books] ELSE db[u]]

----------------------------------------------------------------------------
(* backend/services/guardrails.py *)

PrivilegedNames ==
    {"halt_trading", "modify_limits", "override_alert", "force_unwind", "change_config"}

PRIVILEGED_ACTIONS ==
    [a \in PrivilegedNames |->
        IF a \in {"force_unwind", "change_config"} THEN {"ADMIN"} ELSE {"RISK", "ADMIN"}]

can_execute_known(db, user_id, action) == user_id \in DOMAIN db

can_execute_any(db, user_id, action) == TRUE

can_execute(db, user_id, action) ==
    LET user_role == get_role(db, user_id)
    IN  IF action \notin DOMAIN PRIVILEGED_ACTIONS
        THEN TRUE
        ELSE user_role \in PRIVILEGED_ACTIONS[action]

HaltTargets == {"desk", "book", "symbol"}

validate_halt_trading_args_no_strip(args) ==
    IF ~ \E k \in HaltTargets : Truthy(Get(args, k, None))
    THEN <<FALSE, "At least one of desk, book, or symbol must be specified">>
    ELSE IF \/ ~Truthy(Get(args, "reason", None))
            \/ Len(Get(args, "reason", Str(<<>>)).s) < MinReasonLen
         THEN <<FALSE, "Reason must be at least 10 characters">>
         ELSE <<TRUE, "">>

\* (is_valid, error_message) of validate_halt_trading_args
validate_halt_trading_args(args) ==
    IF ~ \E k \in HaltTargets : Truthy(Get(args, k, None))
    THEN <<FALSE, "At least one of desk, book, or symbol must be specified">>
    ELSE IF \/ ~Truthy(Get(args, "reason", None))
            \/ Len(strip(Get(args, "reason", Str(<<>>)).s)) < MinReasonLen
         THEN <<FALSE, "Reason must be at least 10 characters">>
         ELSE <<TRUE, "">>

----------------------------------------------------------------------------
(* backend/tools/oms.py and backend/infra/audit.py *)

HaltParams == {"desk", "book", "symbol", "reason"}

\* "HALT_<8 hex of uuid4>", the n-th ticket drawn
Ticket(n) == Str(<<"HALT_", n>>)

\* number of tickets drawn so far (oms.py line 67 reached)
TicketsDrawn(H) == Cardinality({i \in 1..Len(H) : H[i].ticket # None})

audit_log_failed(A, user_id, action, ticket_id, result) ==
    Append(A, [user_id |-> user_id, action |-> action,
               ticket_id |-> ticket_id, result |-> "failed"])

\* audit.log: one record appended to the audit file (the sink itself is an
\* append-only collaborator that takes every record)
audit_log(A, user_id, action, ticket_id, result) ==
    Append(A, [user_id |-> user_id, action |-> action,
               ticket_id |-> ticket_id, result |-> result])

halt_outcome_no_strip(args) ==
    IF ~(DOMAIN args \subseteq HaltParams) THEN "TypeError"
    ELSE IF ~ \E k \in HaltTargets : Truthy(Get(args, k, None)) THEN "ValueError"
    ELSE IF \/ ~Truthy(Get(args, "reason", Str(<<>>)))
            \/ Len(Get(args, "reason", Str(<<>>)).s) < MinReasonLen
         THEN "ValueError"
    ELSE "ok"

\* oms.halt_trading(user_id=user_id, **args): how the call ends.
\*   "TypeError"  a keyword the function does not take (raised by the call)
\*   "ValueError" the function's own argument checks (lines 43-47)
\*   "ok"         the ticket is drawn, one "success" record is appended
halt_outcome(args) ==
    IF ~(DOMAIN args \subseteq HaltParams) THEN "TypeError"
    ELSE IF ~ \E k \in HaltTargets : Truthy(Get(args, k, None)) THEN "ValueError"
    ELSE IF \/ ~Truthy(Get(args, "reason", Str(<<>>)))
            \/ Len(strip(Get(args, "reason", Str(<<>>)).s)) < MinReasonLen
         THEN "ValueError"
    ELSE "ok"

\* oms.halt_trading: [raised, result, audit, halts] after the call. ctx is the
\* caller's situation, kept in the history variable halts only.
halt_trading(user_id, args, A, H, ctx) ==
    LET how    == halt_outcome(args)
        ticket == IF how = "ok" THEN Ticket(TicketsDrawn(H) + 1) ELSE None
        entry  == [via |-> ctx.via, confirm_id |-> ctx.confirm_id,
                   answer |-> ctx.answer, present |-> ctx.present,
                   owner |-> ctx.owner, expires_at |-> ctx.expires_at,
                   at |-> ctx.at, role |-> ctx.role,
                   user_id |-> user_id, args |-> args,
                   outcome |-> how, ticket |-> ticket]
    IN  [raised |-> how # "ok",
         error  |-> how,
         result |-> IF how = "ok"
                    THEN [status |-> Str(<<"halted">>), ticket_id |-> ticket,
                          message |-> Str(<<"Trading halted successfully. Ticket: ", ticket>>)]
                    ELSE <<>>,
         audit  |-> IF how = "ok"
                    THEN audit_log(A, user_id, "halt_trading", ticket, "success")
                    ELSE A,
         halts  |-> Append(H, entry)]

----------------------------------------------------------------------------
(* backend/routers/chat.py: _execute_tool *)

ReadOnlyTools ==
    {"get_metric", "get_explain", "run_stress", "get_runbook", "company_intelligence"}

\* _execute_tool: [result, audit, halts]; every exception becomes {"error": ...}
execute_tool(tool_name, args, user_id, A, H, ctx) ==
    IF tool_name = "halt_trading"
    THEN LET r == halt_trading(user_id, args, A, H, ctx)
         IN  [result |-> IF r.raised THEN [error |-> Str(<<r.error>>)] ELSE r.result,
              audit  |-> r.audit,
              halts  |-> r.halts]
    ELSE IF tool_name \in ReadOnlyTools
    THEN [result |-> [data |-> Str(<<tool_name>>)], audit |-> A, halts |-> H]
    ELSE [result |-> [error |-> Str(<<"Unknown tool: ", tool_name>>)],
          audit |-> A, halts |-> H]

----------------------------------------------------------------------------
(* Inputs: callers, the tool calls the language model may return, role edits *)

Callers == {"user1", "user2", "guest"}   \* "guest" is not in _USER_DB

PM_BOOK1 == Str(<<"PM_BOOK1">>)
Reason20 == Str(Rep("x", 20))                        \* 20 characters
ReasonPadded == Str(<<" ">> \o Rep("x", 9) \o <<" ">>) \* 11 characters, 9 stripped

ArgsOk == [book |-> PM_BOOK1, reason |-> Reason20]
ArgsExtraKey == [book |-> PM_BOOK1, reason |-> Reason20, scenario |-> Str(<<"x">>)]
ArgsNoTarget == [reason |-> Reason20]
ArgsPadded == [desk |-> Str(<<"EQ">>), symbol |-> None, reason |-> ReasonPadded]

HaltArgs == {ArgsOk, ArgsExtraKey, ArgsNoTarget, ArgsPadded}

Call(name, args) == [name |-> name, args |-> args]
MetricCall == Call("get_metric", [book |-> PM_BOOK1, metric |-> Str(<<"VaR">>)])

\* gem_response.tool_calls
ToolCallLists ==
    {<<MetricCall>>}
    \cup {<<Call("halt_trading", a)>> : a \in HaltArgs}
    \cup {<<Call("halt_trading", ArgsOk), MetricCall>>,
          <<MetricCall, Call("halt_trading", ArgsNoTarget)>>}

\* rbac.add_user(user_id, role, books) calls an administrator may make
AddUserInputs ==
    {<<"user2", "USER">>, <<"user1", "ADMIN">>}

ClockSteps == {TTL, TTL + 1}
Answers == {"yes", "no"}

----------------------------------------------------------------------------
(* The pending-confirmation store (chat.py lines 52-53, 448-456) *)

NoEntry == <<>>

Entry(user_id, tool_name, tool_args, created_at, expires_at) ==
    [user_id |-> user_id, tool_name |-> tool_name, tool_args |-> tool_args,
     created_at |-> created_at, expires_at |-> expires_at]

\* d[k] = v
Put(d, k, v) == [x \in DOMAIN d \cup {k} |-> IF x = k THEN v ELSE d[x]]

\* del d[k]
Del(d, k) == [x \in DOMAIN d \ {k} |-> d[x]]

\* no function call under evaluation
NoEval == [fn |-> "", in |-> <<>>, out |-> <<>>, done |-> FALSE]

\* the call fn(in), entered and not yet returned
Eval(fn, in) == [fn |-> fn, in |-> in, out |-> <<>>, done |-> FALSE]

\* ran: the number of tools the request has run through _execute_tool;
\* detail: the error_msg shown in "Invalid halt request: {error_msg}"
NoResp ==
    [op |-> "none", confirm_id |-> 0, code |-> 0,
     status |-> "", ticket_id |-> None, outcome |-> "", ran |-> 0, detail |-> ""]

ChatResp(kind, confirm_id, ran, detail) ==
    [op |-> "chat", confirm_id |-> confirm_id,
     code |-> 200, status |-> "", ticket_id |-> None, outcome |-> kind,
     ran |-> ran, detail |-> detail]

\* HTTPException 404 "Risk chat feature is not enabled" (chat.py lines
\* 402-405, chat_confirm.py lines 28-31)
NotEnabledResp(op, confirm_id) ==
    [op |-> op, confirm_id |-> confirm_id, code |-> 404,
     status |-> "", ticket_id |-> None, outcome |-> "NotEnabled", ran |-> 0,
     detail |-> "Risk chat feature is not enabled"]

\* the situation of a tool run by the chat endpoint (history only)
ChatCtx(db, user_id, t) ==
    [via |-> "chat", confirm_id |-> 0, answer |-> "", present |-> FALSE,
     owner |-> "", expires_at |-> 0, at |-> t, role |-> get_role(db, user_id)]

----------------------------------------------------------------------------
(* backend/routers/chat.py: chat *)

feature_enabled_always(flag) == TRUE

\* chat.py line 401 and chat_confirm.py line 27: config["FEATURE_RISK_CHAT"]
feature_enabled(flag) == flag

requires_confirmation_never(tool_name) == FALSE

\* line 432: the branch that routes a tool call to the confirmation protocol
requires_confirmation(tool_name) == tool_name = "halt_trading"

halt_branch_returns_unless_denied(kind) == kind # "denied"

\* lines 435, 443 and 485: each branch of the halt_trading case ends with
\* `return ChatResponse(...)`, which leaves the loop
halt_branch_returns(kind) == TRUE

\* lines 427-512, the loop over gem_response.tool_calls: how the request ends.
\* kind "denied" (435), "invalid" (443), "confirm" (448-489) or "final" (507).
RECURSIVE process_tool_calls(_, _, _, _, _, _, _)
process_tool_calls(calls, db, user_id, t, ran, A, H) ==
    IF calls = <<>>
    THEN [kind |-> "final", args |-> <<>>, msg |-> "", ran |-> ran,
          audit |-> A, halts |-> H]
    ELSE LET tool_name == Head(calls).name
             tool_args == Head(calls).args
             h == IF ~can_execute(db, user_id, "halt_trading")
                  THEN [kind |-> "denied", args |-> <<>>, msg |-> "", ran |-> ran,
                        audit |-> A, halts |-> H]
                  ELSE IF ~validate_halt_trading_args(tool_args)[1]
                  THEN [kind |-> "invalid", args |-> <<>>,
                        msg |-> validate_halt_trading_args(tool_args)[2],
                        ran |-> ran, audit |-> A, halts |-> H]
                  ELSE [kind |-> "confirm", args |-> tool_args, msg |-> "",
                        ran |-> ran, audit |-> A, halts |-> H]
         IN  IF requires_confirmation(tool_name)
             THEN IF halt_branch_returns(h.kind)
                  THEN h
                  ELSE process_tool_calls(Tail(calls), db, user_id, t, ran, A, H)
             ELSE LET r == execute_tool(tool_name, tool_args, user_id, A, H,
                                        ChatCtx(db, user_id, t))
                  IN  process_tool_calls(Tail(calls), db, user_id, t,
                                         Append(ran, tool_name), r.audit, r.halts)

inserts_confirmation_on_invalid(kind) == kind \in {"confirm", "invalid"}

\* lines 434-446 return before line 448: only a halt call that has passed the
\* permission check and the argument validation reaches the insert
inserts_confirmation(kind) == kind = "confirm"

new_confirm_id_reused(n) == 1

\* line 449: f"CONFIRM_{uuid.uuid4().hex[:12].upper()}" of the (n+1)-th uuid
\* drawn; the draws are pairwise different
new_confirm_id(n) == n + 1

\* POST /api/chat, in a run that draws at most limit confirm ids. The two
\* time.time() reads of lines 454-455 may differ.
chat_bounded(user_id, calls, limit) ==
    /\ running = 0
    /\ IF ~feature_enabled(FEATURE_RISK_CHAT)
       THEN /\ resp' = NotEnabledResp("chat", 0)
            /\ UNCHANGED <<pending_confirmations, now, events, uuids, audit, halts>>
       ELSE
         LET p == process_tool_calls(calls, USER_DB, user_id, now, <<>>, audit, halts)
         IN  /\ audit' = p.audit
             /\ halts' = p.halts
             /\ IF inserts_confirmation(p.kind)
                THEN /\ uuids < limit
                     /\ \E d \in {0, 1} :
                          /\ d = 1 => events < MaxEvents
                          /\ LET confirm_id == new_confirm_id(uuids)
                             IN  /\ pending_confirmations' =
                                       Put(pending_confirmations, confirm_id,
                                           Entry(user_id, "halt_trading", p.args,
                                                 now, now + d + TTL))
                                 /\ resp' = ChatResp(p.kind, confirm_id,
                                                      Len(p.ran), p.msg)
                          /\ now' = now + d
                          /\ events' = events + d
                     /\ uuids' = uuids + 1
                ELSE /\ resp' = ChatResp(p.kind, 0, Len(p.ran), p.msg)
                     /\ UNCHANGED <<pending_confirmations, now, events, uuids>>
    /\ UNCHANGED <<USER_DB, tasks, running, eval, FEATURE_RISK_CHAT, portfolio_state>>

\* POST /api/chat
chat(user_id, calls) == chat_bounded(user_id, calls, MaxConfirms)

sweep_expired_le(data, t) == data["expires_at"] <= t

\* line 527: if data["expires_at"] < now
sweep_expired(data, t) == data["expires_at"] < t

\* cleanup_expired_confirmations (lines 522-530)
cleanup_expired_confirmations ==
    /\ running = 0
    /\ pending_confirmations' =
          [c \in {x \in DOMAIN pending_confirmations :
                      ~sweep_expired(pending_confirmations[x], now)}
              |-> pending_confirmations[c]]
    /\ UNCHANGED <<USER_DB, now, events, uuids, audit, halts, resp, tasks,
                   running, eval, FEATURE_RISK_CHAT, portfolio_state>>

----------------------------------------------------------------------------
(* backend/routers/chat_confirm.py: confirm_action *)

\* line 43
is_owner(confirm_data, user_id) == confirm_data["user_id"] = user_id

is_expired_never(confirm_data, t) == FALSE

\* line 50
is_expired(confirm_data, t) == t > confirm_data["expires_at"]

Decide_no_recheck(store, db, t, user_id, confirm_id, answer) ==
    IF confirm_id \notin DOMAIN store THEN "NotFound"
    ELSE IF store[confirm_id]["user_id"] # user_id THEN "Forbidden"
    ELSE IF t > store[confirm_id]["expires_at"] THEN "Expired"
    ELSE IF answer = "no" THEN "Cancelled"
    ELSE "Execute"

\* lines 34-76: the branch a confirm request takes, from the store, the user
\* database and the clock as the handler reads them
Decide(store, db, t, user_id, confirm_id, answer) ==
    IF confirm_id \notin DOMAIN store THEN "NotFound"
    ELSE IF ~is_owner(store[confirm_id], user_id) THEN "Forbidden"
    ELSE IF is_expired(store[confirm_id], t) THEN "Expired"
    ELSE IF answer = "no" THEN "Cancelled"
    ELSE IF ~can_execute(db, user_id, store[confirm_id]["tool_name"]) THEN "Denied"
    ELSE "Execute"

\* the outcomes after which the handler has run del _pending_confirmations[id]
\* (lines 51, 60, 72, 83)
Purging == {"Expired", "Cancelled", "Denied", "Executed"}

store_after_keeps_expired(store, confirm_id, outcome) ==
    IF outcome \in Purging \ {"Expired"} THEN Del(store, confirm_id) ELSE store

store_after_keeps_executed(store, confirm_id, outcome) ==
    IF outcome \in Purging \ {"Executed"} THEN Del(store, confirm_id) ELSE store

store_after_purges_forbidden(store, confirm_id, outcome) ==
    IF outcome \in Purging \cup {"Forbidden"} THEN Del(store, confirm_id) ELSE store

store_after_keeps_cancelled(store, confirm_id, outcome) ==
    IF outcome \in Purging \ {"Cancelled"} THEN Del(store, confirm_id) ELSE store

store_after(store, confirm_id, outcome) ==
    IF outcome \in Purging THEN Del(store, confirm_id) ELSE store

HttpCode(outcome) ==
    CASE outcome = "NotFound"  -> 404
      [] outcome = "Forbidden" -> 403
      [] outcome = "Expired"   -> 410
      [] outcome = "Denied"    -> 403
      [] outcome = "Error"     -> 500
      [] OTHER                 -> 200

\* ConfirmResponse (lines 61-64, 88-92) or the HTTPException raised; outcome
\* tells the two 403 answers (lines 44 and 73) apart
ConfirmResp(user_id, confirm_id, answer, outcome, result) ==
    [op |-> "confirm", confirm_id |-> confirm_id, code |-> HttpCode(outcome),
     status |-> CASE outcome = "Executed"  -> "executed"
                  [] outcome = "Cancelled" -> "cancelled"
                  [] OTHER                 -> "",
     ticket_id |-> IF outcome = "Executed" THEN Get(result, "ticket_id", None) ELSE None,
     outcome |-> outcome, ran |-> IF outcome = "Executed" THEN 1 ELSE 0,
     detail |-> ""]

\* the situation of the executor call of line 80 (history only)
ConfirmCtx(store, db, user_id, confirm_id, answer, t) ==
    LET present == confirm_id \in DOMAIN store
    IN  [via |-> "confirm", confirm_id |-> confirm_id, answer |-> answer,
         present |-> present,
         owner |-> IF present THEN store[confirm_id]["user_id"] ELSE "",
         expires_at |-> IF present THEN store[confirm_id]["expires_at"] ELSE 0,
         at |-> t, role |-> get_role(db, user_id)]

\* lines 34-76 when the request ends there: NotFound, Forbidden, Expired,
\* Cancelled or Denied
Reject(user_id, confirm_id, answer, outcome) ==
    /\ pending_confirmations' = store_after(pending_confirmations, confirm_id, outcome)
    /\ resp' = ConfirmResp(user_id, confirm_id, answer, outcome, <<>>)
    /\ UNCHANGED <<audit, halts>>

\* lines 78-103 with the confirm_data read at line 34 and the clock read at
\* line 50: run the tool, delete the entry, answer "executed"; a KeyError of
\* the del is caught at line 94 and answered with HTTP 500
ExecuteConfirmed(user_id, confirm_id, answer, confirm_data, t) ==
    LET r == execute_tool(confirm_data["tool_name"], confirm_data["tool_args"],
                          user_id, audit, halts,
                          ConfirmCtx(pending_confirmations, USER_DB, user_id,
                                     confirm_id, answer, t))
    IN  /\ audit' = r.audit
        /\ halts' = r.halts
        /\ IF confirm_id \in DOMAIN pending_confirmations
           THEN /\ pending_confirmations' =
                      store_after(pending_confirmations, confirm_id, "Executed")
                /\ resp' = ConfirmResp(user_id, confirm_id, answer, "Executed", r.result)
           ELSE /\ pending_confirmations' = pending_confirmations
                /\ resp' = ConfirmResp(user_id, confirm_id, answer, "Error", <<>>)

\* POST /api/chat/confirm, run by the event loop without interruption
confirm_action(user_id, confirm_id, answer) ==
    /\ running = 0
    /\ IF ~feature_enabled(FEATURE_RISK_CHAT)
       THEN /\ resp' = NotEnabledResp("confirm", confirm_id)
            /\ UNCHANGED <<pending_confirmations, audit, halts>>
       ELSE LET outcome == Decide(pending_confirmations, USER_DB, now,
                                  user_id, confirm_id, answer)
            IN  IF outcome = "Execute"
                THEN ExecuteConfirmed(user_id, confirm_id, answer,
                                      pending_confirmations[confirm_id], now)
                ELSE Reject(user_id, confirm_id, answer, outcome)
    /\ UNCHANGED <<USER_DB, now, events, uuids, tasks, running, eval, FEATURE_RISK_CHAT, portfolio_state>>

----------------------------------------------------------------------------
(* Environment: the administrator and the clock *)

\* rbac.add_user (lines 102-114)
add_user(user_id, role, books) ==
    /\ running = 0
    /\ events < MaxEvents
    /\ USER_DB' = add_user_db(USER_DB, user_id, role, books)
    /\ events' = events + 1
    /\ UNCHANGED <<pending_confirmations, now, uuids, audit, halts, resp,
                   tasks, running, eval, FEATURE_RISK_CHAT, portfolio_state>>

Tick(d) ==
    /\ events < MaxEvents
    /\ now' = now + d
    /\ events' = events + 1
    /\ UNCHANGED <<USER_DB, pending_confirmations, uuids, audit, halts, resp,
                   tasks, running, eval, FEATURE_RISK_CHAT, portfolio_state>>

----------------------------------------------------------------------------
(* The portfolio routers: routers/server.py (tech) and routers/health.py   *)
(* (healthcare).  Each module keeps a symbol map, ticker -> shares, which   *)
(* its /portfolio endpoint iterates, and a companies_store, ticker ->       *)
(* entry with an "active" mark.  The entries' name and sector, the price    *)
(* caches and the cached company list cs are written by the handlers and    *)
(* read by none of their conditions; they are left out.                     *)

\* the tickers the runs start with (two of the fourteen of TECH_SYMBOLS and
\* of the ten of HEALTHCARE_SYMBOLS; a handler touches only the entries of
\* the ticker it is asked about)
TechListed == {"AAPL"}
HealthListed == {"PFE"}

\* str.upper() on the ticker strings the requests carry
upper(s) ==
    CASE s = "aapl" -> "AAPL"
      [] s = "ibm"  -> "IBM"
      [] s = "pfe"  -> "PFE"
      [] s = "cvs"  -> "CVS"
      [] OTHER      -> s

\* server.py lines 21-41 and health.py lines 13-55: the state after import
portfolio_import ==
    /\ TECH_SYMBOLS = [t \in TechListed |-> 1]
    /\ server_companies_store =
           [t \in TechListed |-> [shares |-> 1, active |-> TRUE]]
    /\ HEALTHCARE_SYMBOLS = [t \in HealthListed |-> 1]
    /\ health_companies_store =
           [t \in HealthListed |-> [shares |-> 1, active |-> TRUE]]

\* the answer of a portfolio handler: status code and the body's payload
PortfolioResp(op, code, body) == [op |-> op, code |-> code, body |-> body]

\* int(payload.shares) or 1
shares_or_1(shares) == IF shares = 0 THEN 1 ELSE shares

\* the frame of a portfolio handler
PortfolioFrame ==
    UNCHANGED <<USER_DB, pending_confirmations, now, events, uuids, audit,
                halts, tasks, running, eval, FEATURE_RISK_CHAT>>

\* server.add_company
server_add_company(ticker, shares) ==
    LET t == upper(ticker)
    IN  /\ IF t \in DOMAIN server_companies_store /\ server_companies_store[t].active
           THEN /\ resp' = PortfolioResp("server.add", 400, t)
                /\ UNCHANGED <<TECH_SYMBOLS, server_companies_store>>
           ELSE /\ server_companies_store' =
                       Put(server_companies_store, t, [shares |-> shares, active |-> TRUE])
                /\ TECH_SYMBOLS' =
                       IF t \in DOMAIN TECH_SYMBOLS
                       THEN Put(TECH_SYMBOLS, t, TECH_SYMBOLS[t] + shares)
                       ELSE Put(TECH_SYMBOLS, t, shares_or_1(shares))
                /\ resp' = PortfolioResp("server.add", 200, t)
        /\ UNCHANGED <<HEALTHCARE_SYMBOLS, health_companies_store>>
        /\ PortfolioFrame

\* the loop of server.update_shares over the items of the request
RECURSIVE server_apply_changes(_, _, _, _)
server_apply_changes(changes, symbols, store, updated) ==
    IF changes = <<>>
    THEN [symbols |-> symbols, store |-> store, updated |-> updated]
    ELSE LET t == upper(Head(changes).ticker)
             new_shares == Head(changes).shares
         IN  server_apply_changes(
                 Tail(changes),
                 IF t \in DOMAIN symbols THEN Put(symbols, t, new_shares) ELSE symbols,
                 IF t \in DOMAIN store
                 THEN Put(store, t, [store[t] EXCEPT !.shares = new_shares])
                 ELSE store,
                 IF t \in DOMAIN symbols
                 THEN Append(updated, [ticker |-> t, shares |-> new_shares])
                 ELSE updated)

\* server.update_shares
server_update_shares(changes) ==
    LET r == server_apply_changes(changes, TECH_SYMBOLS, server_companies_store, <<>>)
    IN  /\ TECH_SYMBOLS' = r.symbols
        /\ server_companies_store' = r.store
        /\ resp' = PortfolioResp("server.update-shares", 200, r.updated)
        /\ UNCHANGED <<HEALTHCARE_SYMBOLS, health_companies_store>>
        /\ PortfolioFrame

\* server.remove_company
server_remove_company(ticker) ==
    LET t == upper(ticker)
    IN  /\ IF t \notin DOMAIN server_companies_store
           THEN /\ resp' = PortfolioResp("server.remove", 404, t)
                /\ UNCHANGED <<TECH_SYMBOLS, server_companies_store>>
           ELSE /\ server_companies_store' =
                       [server_companies_store EXCEPT ![t].active = FALSE]
                /\ TECH_SYMBOLS' =
                       IF t \in DOMAIN TECH_SYMBOLS THEN Del(TECH_SYMBOLS, t) ELSE TECH_SYMBOLS
                /\ resp' = PortfolioResp("server.remove", 200, t)
        /\ UNCHANGED <<HEALTHCARE_SYMBOLS, health_companies_store>>
        /\ PortfolioFrame

\* health.add_company
health_add_company(ticker, shares) ==
    LET t == upper(ticker)
    IN  /\ IF t \in DOMAIN health_companies_store /\ health_companies_store[t].active
           THEN /\ resp' = PortfolioResp("health.add", 400, t)
                /\ UNCHANGED <<HEALTHCARE_SYMBOLS, health_companies_store>>
           ELSE /\ health_companies_store' =
                       Put(health_companies_store, t, [shares |-> shares, active |-> TRUE])
                /\ HEALTHCARE_SYMBOLS' = Put(HEALTHCARE_SYMBOLS, t, shares)
                /\ resp' = PortfolioResp("health.add", 200, t)
        /\ UNCHANGED <<TECH_SYMBOLS, server_companies_store>>
        /\ PortfolioFrame

\* the update of the symbol map in the loop of health.update_shares only
\* when the ticker is in the map already, as server.update_shares does
health_sets_symbol_if_listed(t, symbols) == t \in DOMAIN symbols

\* health.py line 221: the symbol map is written for every ticker the loop
\* did not skip
health_sets_symbol(t, symbols) == TRUE

\* the loop of health.update_shares over the items of the request
RECURSIVE health_apply_changes(_, _, _, _)
health_apply_changes(changes, symbols, store, updated) ==
    IF changes = <<>>
    THEN [symbols |-> symbols, store |-> store, updated |-> updated]
    ELSE LET t == upper(Head(changes).ticker)
             shares == Head(changes).shares
         IN  IF t \notin DOMAIN store
             THEN health_apply_changes(Tail(changes), symbols, store, updated)
             ELSE health_apply_changes(
                      Tail(changes),
                      IF health_sets_symbol(t, symbols)
                      THEN Put(symbols, t, shares) ELSE symbols,
                      Put(store, t, [store[t] EXCEPT !.shares = shares]),
                      Append(updated, [ticker |-> t, shares |-> shares]))

\* health.update_shares
health_update_shares(changes) ==
    LET r == health_apply_changes(changes, HEALTHCARE_SYMBOLS, health_companies_store, <<>>)
    IN  /\ HEALTHCARE_SYMBOLS' = r.symbols
        /\ health_companies_store' = r.store
        /\ resp' = PortfolioResp("health.update-shares", 200, r.updated)
        /\ UNCHANGED <<TECH_SYMBOLS, server_companies_store>>
        /\ PortfolioFrame

\* health.remove_company
health_remove_company(ticker) ==
    LET t == upper(ticker)
    IN  /\ IF t \notin DOMAIN health_companies_store
           THEN /\ resp' = PortfolioResp("health.remove", 404, t)
                /\ UNCHANGED <<HEALTHCARE_SYMBOLS, health_companies_store>>
           ELSE /\ health_companies_store' =
                       [health_companies_store EXCEPT ![t].active = FALSE]
                /\ HEALTHCARE_SYMBOLS' =
                       IF t \in DOMAIN HEALTHCARE_SYMBOLS
                       THEN Del(HEALTHCARE_SYMBOLS, t) ELSE HEALTHCARE_SYMBOLS
                /\ resp' = PortfolioResp("health.remove", 200, t)
        /\ UNCHANGED <<TECH_SYMBOLS, server_companies_store>>
        /\ PortfolioFrame

----------------------------------------------------------------------------
(* The request-level specification: every handler is one step, in a        *)
(* deployment that runs with FEATURE_RISK_CHAT=1                            *)

Init ==
    /\ USER_DB = InitUserDB
    /\ pending_confirmations = <<>>
    /\ now = 0
    /\ events = 0
    /\ uuids = 0
    /\ audit = <<>>
    /\ halts = <<>>
    /\ resp = NoResp
    /\ tasks = <<>>
    /\ running = 0
    /\ FEATURE_RISK_CHAT = TRUE
    /\ portfolio_import
    /\ eval = NoEval

Next ==
    \/ \E u \in Callers, calls \in ToolCallLists : chat(u, calls)
    \/ \E u \in Callers, c \in 1..MaxConfirms, a \in Answers : confirm_action(u, c, a)
    \/ cleanup_expired_confirmations
    \/ \E in \in AddUserInputs : add_user(in[1], in[2], <<"PM_BOOK1">>)
    \/ \E d \in ClockSteps : Tick(d)

Spec == Init /\ [][Next]_vars

----------------------------------------------------------------------------
(* The event-loop specification: confirm requests in flight at the same    *)
(* time. confirm_action is a coroutine (async def) on the single asyncio   *)
(* event loop; another request can run only where the coroutine awaits.    *)
(* The one call in it that reaches another system is _execute_tool at line *)
(* 80, between the checks (lines 34-76) and the del of line 83.            *)

ExecutorAwaited_yes == TRUE

\* line 80 is the plain call `result = _execute_tool(...)`, not an await
ExecutorAwaited == FALSE

Task(user_id, confirm_id, answer, overlap) ==
    [user_id |-> user_id, confirm_id |-> confirm_id, answer |-> answer,
     pc |-> "queued", confirm_data |-> NoEntry, t |-> 0, outcome |-> "",
     overlap |-> overlap]

\* a confirm request reaches the server
Arrive(user_id, confirm_id, answer) ==
    /\ Len(tasks) < MaxTasks
    /\ tasks' = Append(tasks,
                       Task(user_id, confirm_id, answer,
                            \E j \in 1..Len(tasks) : tasks[j].pc # "done"))
    /\ UNCHANGED <<USER_DB, pending_confirmations, now, events, uuids, audit,
                   halts, resp, running, eval, FEATURE_RISK_CHAT, portfolio_state>>

\* the event loop starts the coroutine of task i: lines 26-76
Begin(i) ==
    /\ running = 0
    /\ i \in 1..Len(tasks)
    /\ tasks[i].pc = "queued"
    /\ LET tk == tasks[i]
           outcome == Decide(pending_confirmations, USER_DB, now,
                             tk.user_id, tk.confirm_id, tk.answer)
       IN  IF ~feature_enabled(FEATURE_RISK_CHAT)
           THEN /\ resp' = NotEnabledResp("confirm", tk.confirm_id)
                /\ tasks' = [tasks EXCEPT ![i].pc = "done",
                                          ![i].outcome = "NotEnabled"]
                /\ running' = 0
                /\ UNCHANGED <<pending_confirmations, audit, halts>>
           ELSE IF outcome = "Execute"
           THEN /\ tasks' = [tasks EXCEPT ![i].pc = "exec",
                                          ![i].confirm_data =
                                              pending_confirmations[tk.confirm_id],
                                          ![i].t = now]
                /\ running' = IF ExecutorAwaited THEN 0 ELSE i
                /\ UNCHANGED <<pending_confirmations, audit, halts, resp>>
           ELSE /\ Reject(tk.user_id, tk.confirm_id, tk.answer, outcome)
                /\ tasks' = [tasks EXCEPT ![i].pc = "done", ![i].outcome = outcome]
                /\ running' = 0
    /\ UNCHANGED <<USER_DB, now, events, uuids, eval, FEATURE_RISK_CHAT, portfolio_state>>

\* the coroutine of task i goes on: lines 78-103
Finish(i) ==
    /\ i \in 1..Len(tasks)
    /\ tasks[i].pc = "exec"
    /\ running \in {0, i}
    /\ LET tk == tasks[i]
       IN  /\ ExecuteConfirmed(tk.user_id, tk.confirm_id, tk.answer,
                               tk.confirm_data, tk.t)
           /\ tasks' = [tasks EXCEPT ![i].pc = "done",
                                     ![i].outcome = resp'.outcome]
    /\ running' = 0
    /\ UNCHANGED <<USER_DB, now, events, uuids, eval, FEATURE_RISK_CHAT, portfolio_state>>

ConcCallers == {"user2", "guest"}

NextConc ==
    \/ \E u \in ConcCallers : chat(u, <<Call("halt_trading", ArgsOk)>>)
    \/ \E u \in ConcCallers, c \in 1..MaxConfirms, a \in Answers : Arrive(u, c, a)
    \/ \E i \in 1..MaxTasks : Begin(i)
    \/ \E i \in 1..MaxTasks : Finish(i)

SpecConc == Init /\ [][NextConc]_vars

----------------------------------------------------------------------------
(* The feature flag: get_config (secrets.py line 37) reads the environment *)
(* variable at every request, so the flag can be off at start (its default *)
(* is "0") and can change between two requests.                            *)

\* the environment variable FEATURE_RISK_CHAT is set to "1" (on) or to
\* anything else (off)
setenv(on) ==
    /\ running = 0
    /\ events < MaxEvents
    /\ on # FEATURE_RISK_CHAT
    /\ FEATURE_RISK_CHAT' = on
    /\ events' = events + 1
    /\ UNCHANGED <<USER_DB, pending_confirmations, now, uuids, audit, halts,
                   resp, tasks, running, eval, portfolio_state>>

InitFlag ==
    /\ USER_DB = InitUserDB
    /\ pending_confirmations = <<>>
    /\ now = 0
    /\ events = 0
    /\ uuids = 0
    /\ audit = <<>>
    /\ halts = <<>>
    /\ resp = NoResp
    /\ tasks = <<>>
    /\ running = 0
    /\ eval = NoEval
    /\ FEATURE_RISK_CHAT \in BOOLEAN
    /\ portfolio_import

FlagCallers == {"user1", "user2"}
FlagToolCallLists == {<<MetricCall>>, <<Call("halt_trading", ArgsOk)>>}

NextFlag ==
    \/ \E u \in FlagCallers, calls \in FlagToolCallLists : chat(u, calls)
    \/ \E u \in FlagCallers, c \in 1..MaxConfirms, a \in Answers :
          confirm_action(u, c, a)
    \/ \E on \in BOOLEAN : setenv(on)
    \/ \E d \in ClockSteps : Tick(d)

SpecFlag == InitFlag /\ [][NextFlag]_vars

----------------------------------------------------------------------------
(* The store with several confirmations alive at once: two authorized      *)
(* users, each with a halt request of its own, confirm requests, the sweep *)
(* and the clock passing the time to live.                                 *)

StoreCallers == {"user2", "admin1"}

\* the halt request of each of them
StoreRequests ==
    {<<"user2", <<Call("halt_trading", ArgsOk)>> >>,
     <<"admin1", <<Call("halt_trading", ArgsExtraKey)>> >>}

NextStore ==
    \/ \E r \in StoreRequests : chat_bounded(r[1], r[2], MaxLive)
    \/ \E u \in StoreCallers, c \in 1..MaxLive, a \in Answers :
          confirm_action(u, c, a)
    \/ cleanup_expired_confirmations
    \/ Tick(TTL + 1)

SpecStore == Init /\ [][NextStore]_vars

----------------------------------------------------------------------------
(* The loop over the tool calls of one model response (chat.py lines       *)
(* 427-512): every list of up to MaxCalls calls, each a read-only call or  *)
(* a valid halt request, and a list with a halt request without a target   *)
(* in front of a valid one, asked by a USER and by a RISK user.            *)

LoopCallers == {"user1", "user2"}
LoopCalls == {MetricCall, Call("halt_trading", ArgsOk)}

\* the sequences of n calls
RECURSIVE CallLists(_)
CallLists(n) ==
    IF n = 0 THEN {<<>>}
    ELSE {Append(l, c) : l \in CallLists(n - 1), c \in LoopCalls}

LoopToolCallLists ==
    UNION {CallLists(n) : n \in 0..MaxCalls}
    \cup {<<MetricCall, Call("halt_trading", ArgsNoTarget),
             Call("halt_trading", ArgsOk)>>}

NextLoop ==
    \/ \E u \in LoopCallers, calls \in LoopToolCallLists :
          chat_bounded(u, calls, MaxLive)
    \/ \E u \in LoopCallers, c \in 1..MaxLive : confirm_action(u, c, "no")

SpecLoop == Init /\ [][NextLoop]_vars

----------------------------------------------------------------------------
(* The portfolio routers driven by add, update-shares and remove requests  *)

\* ticker strings of the requests, in either case; IBM and CVS are not in
\* the maps at import
TechTickers == {"AAPL", "aapl", "ibm"}
HealthTickers == {"PFE", "pfe", "cvs"}

\* share counts of the requests (pydantic int)
ShareValues == 0..MaxShares

\* the item lists of an update-shares request: no item, one item, and two
\* items that name different ticker strings with the same share count
ChangeLists(tickers) ==
    LET Items == [ticker : tickers, shares : ShareValues]
    IN  {<<>>} \cup {<<i>> : i \in Items}
               \cup {ch \in {<<i, j>> : i, j \in Items} :
                        /\ ch[1].ticker # ch[2].ticker
                        /\ ch[1].shares = ch[2].shares}

NextPortfolio ==
    \/ \E t \in TechTickers, n \in ShareValues : server_add_company(t, n)
    \/ \E ch \in ChangeLists(TechTickers) : server_update_shares(ch)
    \/ \E t \in TechTickers : server_remove_company(t)
    \/ \E t \in HealthTickers, n \in ShareValues : health_add_company(t, n)
    \/ \E ch \in ChangeLists(HealthTickers) : health_update_shares(ch)
    \/ \E t \in HealthTickers : health_remove_company(t)

SpecPortfolio == Init /\ [][NextPortfolio]_vars

----------------------------------------------------------------------------
(* The guardrail validation as a function of its argument dict            *)
(* (guardrails.py lines 99-117): every dict over the keys desk, book,      *)
(* symbol, reason with each key absent, None, "" or a string.              *)

\* the dict with the keys whose value is given
MkArgs(desk, book, symbol, reason) ==
    LET v == [desk |-> desk, book |-> book, symbol |-> symbol, reason |-> reason]
    IN  [k \in {x \in DOMAIN v : v[x] # Absent} |-> v[k]]

TargetValues == {Absent, None, Str(<<>>), Str(<<"EQ">>)}

ReasonValues ==
    {Absent, None}
    \cup {Str(Rep(" ", l) \o Rep("x", n) \o Rep(" ", r)) :
             l \in 0..MaxPad, n \in 0..MaxReasonLen, r \in 0..MaxPad}

InitValidate ==
    /\ USER_DB = InitUserDB
    /\ pending_confirmations = <<>>
    /\ now = 0
    /\ events = 0
    /\ uuids = 0
    /\ audit = <<>>
    /\ halts = <<>>
    /\ resp = NoResp
    /\ tasks = <<>>
    /\ running = 0
    /\ FEATURE_RISK_CHAT = TRUE
    /\ portfolio_import
    /\ \E d \in TargetValues, b \in TargetValues, s \in TargetValues,
          r \in ReasonValues :
          eval = Eval("validate_halt_trading_args", MkArgs(d, b, s, r))

\* is_valid, error_msg = guardrails.validate_halt_trading_args(tool_args)
validate_call ==
    /\ eval.fn = "validate_halt_trading_args"
    /\ ~eval.done
    /\ eval' = [eval EXCEPT !.out = validate_halt_trading_args(eval.in),
                            !.done = TRUE]
    /\ UNCHANGED <<USER_DB, pending_confirmations, now, events, uuids, audit,
                   halts, resp, tasks, running,
                   FEATURE_RISK_CHAT, portfolio_state>>

NextValidate == validate_call

SpecValidate == InitValidate /\ [][NextValidate]_vars

----------------------------------------------------------------------------
(* The guardrail and the executor on the same argument dict: the check of  *)
(* chat.py line 441 at creation and the call of line 383 at redemption,    *)
(* for every dict over the keys desk, book, symbol, reason.                *)

InitAgree ==
    /\ USER_DB = InitUserDB
    /\ pending_confirmations = <<>>
    /\ now = 0
    /\ events = 0
    /\ uuids = 0
    /\ audit = <<>>
    /\ halts = <<>>
    /\ resp = NoResp
    /\ tasks = <<>>
    /\ running = 0
    /\ FEATURE_RISK_CHAT = TRUE
    /\ portfolio_import
    /\ \E d \in TargetValues, b \in TargetValues, s \in TargetValues,
          r \in ReasonValues :
          eval = Eval("halt_trading", MkArgs(d, b, s, r))

\* guardrails.validate_halt_trading_args(tool_args), then
\* oms.halt_trading(user_id=user_id, **tool_args) through _execute_tool
guardrail_then_executor ==
    /\ eval.fn = "halt_trading"
    /\ ~eval.done
    /\ eval' = [eval EXCEPT
                  !.out = [is_valid |-> validate_halt_trading_args(eval.in)[1],
                           executor |->
                              halt_trading("user2", eval.in, <<>>, <<>>,
                                           ChatCtx(USER_DB, "user2", now)).error],
                  !.done = TRUE]
    /\ UNCHANGED <<USER_DB, pending_confirmations, now, events, uuids, audit,
                   halts, resp, tasks, running, FEATURE_RISK_CHAT, portfolio_state>>

NextAgree == guardrail_then_executor

SpecAgree == InitAgree /\ [][NextAgree]_vars

----------------------------------------------------------------------------
(* backend.py: the company / industry risk score. A Python or numpy float  *)
(* is an exact fraction [t |-> "num", n, d] with d > 0, or NaN; a call     *)
(* that raises is [raised |-> TRUE].                                       *)

RECURSIVE Gcd(_, _)
Gcd(a, b) == IF b = 0 THEN a ELSE Gcd(b, a % b)

Abs(n) == IF n < 0 THEN -n ELSE n

\* the fraction n/d in lowest terms
Q(n, d) ==
    LET g == Gcd(Abs(n), d)
    IN  [t |-> "num", n |-> n \div g, d |-> d \div g]

NaN == [t |-> "nan"]
IsNaN(x) == x.t = "nan"

QAdd(x, y) == IF IsNaN(x) \/ IsNaN(y) THEN NaN ELSE Q(x.n * y.d + y.n * x.d, x.d * y.d)
QSub(x, y) == IF IsNaN(x) \/ IsNaN(y) THEN NaN ELSE Q(x.n * y.d - y.n * x.d, x.d * y.d)
QMul(x, y) == IF IsNaN(x) \/ IsNaN(y) THEN NaN ELSE Q(x.n * y.n, x.d * y.d)
QAbs(x) == IF IsNaN(x) THEN NaN ELSE Q(Abs(x.n), x.d)

\* comparisons: every comparison with NaN is False
QLt(x, y) == ~IsNaN(x) /\ ~IsNaN(y) /\ x.n * y.d < y.n * x.d
QLe(x, y) == ~IsNaN(x) /\ ~IsNaN(y) /\ x.n * y.d <= y.n * x.d

\* np.clip(x, lo, hi) = minimum(maximum(x, lo), hi); NaN stays NaN
np_clip(x, lo, hi) ==
    IF IsNaN(x) THEN NaN
    ELSE IF QLt(x, lo) THEN lo
    ELSE IF QLt(hi, x) THEN hi
    ELSE x

Returned(v) == [raised |-> FALSE, value |-> v]
Raised == [raised |-> TRUE, value |-> <<>>]

\* get_nyt_sentiment (lines 18-52). src is what requests.get(...).json()
\* does: "raise" (timeout, connection error, body that is not JSON), or a
\* body whose docs list holds src.docs articles, src.pos of them with a
\* positive word and src.neg with a negative word
get_nyt_sentiment(src) ==
    IF src.kind = "raise" THEN Returned(Q(0, 1))
    ELSE IF src.docs = 0 THEN Returned(Q(0, 1))
    ELSE LET total == src.pos + src.neg
             score == Q(src.pos - src.neg, IF total > 1 THEN total ELSE 1)
         IN  Returned(np_clip(score, Q(-1, 1), Q(1, 1)))

\* get_finnhub_sentiment (lines 58-82). src is what the Finnhub client call
\* of line 63 does: "raise" (timeout, rate limit, API error), "empty" (no
\* "data" or an empty list), "no_mspr" (entries, none with the key "mspr":
\* np.mean([]) is NaN), or "mean" with src.mspr the mean of the mspr values
get_finnhub_sentiment(src) ==
    IF src.kind = "raise" THEN Raised
    ELSE IF src.kind = "empty" THEN Returned(Q(1, 2))
    ELSE LET avg_sentiment == IF src.kind = "no_mspr" THEN NaN ELSE Q(src.mspr, 100)
             risk_score == QSub(Q(1, 1), QMul(QAdd(avg_sentiment, Q(1, 1)), Q(1, 2)))
         IN  Returned(np_clip(risk_score, Q(0, 1), Q(1, 1)))

\* get_alpha_fundamentals (lines 89-104): (pe, debt_eq). src is what the
\* overview request does: "raise" (timeout, not JSON, a field float() does
\* not take, the rate-limit note: time is not imported, NameError), or a
\* body with src.pe and src.debt, Absent when the field is missing or empty
get_alpha_fundamentals(src) ==
    IF src.kind = "raise" THEN Returned(<<Q(15, 1), Q(1, 1)>>)
    ELSE Returned(<<IF src.pe = Absent THEN Q(15, 1) ELSE src.pe,
                    IF src.debt = Absent THEN Q(1, 1) ELSE src.debt>>)

weights_le(avg_sentiment) ==
    IF QLe(QAbs(avg_sentiment), Q(2, 10))
    THEN <<Q(6, 10), Q(4, 10)>>
    ELSE <<Q(7, 10), Q(3, 10)>>

\* lines 130-133: (w_sentiment, w_fund)
weights(avg_sentiment) ==
    IF QLt(QAbs(avg_sentiment), Q(2, 10))
    THEN <<Q(6, 10), Q(4, 10)>>
    ELSE <<Q(7, 10), Q(3, 10)>>

\* compute_risk (lines 110-146). mode is "symbol" (symbol given),
\* "technology" or "industry" (industry given, no symbol) or "none"
compute_risk(mode, finnhub, nyt, alpha) ==
    IF mode = "none" THEN Raised
    ELSE
    LET f == get_finnhub_sentiment(finnhub)
        n == get_nyt_sentiment(nyt)
        a == IF mode = "symbol" THEN get_alpha_fundamentals(alpha)
             ELSE IF mode = "technology" THEN Returned(<<Q(20, 1), Q(8, 10)>>)
             ELSE Returned(<<Q(15, 1), Q(6, 10)>>)
    IN  IF f.raised \/ n.raised \/ a.raised THEN Raised
        ELSE
        LET avg_sentiment == QMul(QAdd(f.value, n.value), Q(1, 2))
            w == weights(avg_sentiment)
            sentiment_risk ==
                QSub(Q(1, 1),
                     np_clip(QMul(QAdd(avg_sentiment, Q(1, 1)), Q(1, 2)), Q(0, 1), Q(1, 1)))
            pe_risk == np_clip(QMul(a.value[1], Q(1, 40)), Q(0, 1), Q(1, 1))
            debt_risk == np_clip(QMul(a.value[2], Q(1, 2)), Q(0, 1), Q(1, 1))
            fundamentals_risk == QMul(QAdd(pe_risk, debt_risk), Q(1, 2))
            total_risk == QAdd(QMul(w[1], sentiment_risk), QMul(w[2], fundamentals_risk))
        IN  [raised |-> FALSE,
             value |-> np_clip(total_risk, Q(0, 1), Q(1, 1)),
             avg_sentiment |-> avg_sentiment,
             w_sentiment |-> w[1], w_fund |-> w[2]]

\* what the three sources may answer
FinnhubSources ==
    {[kind |-> k, mspr |-> 0] : k \in {"raise", "empty", "no_mspr"}}
    \cup {[kind |-> "mean", mspr |-> m] :
             m \in {-150, -100, -60, -20, 0, 20, 60, 100, 150}}

NytSources ==
    {[kind |-> "raise", docs |-> 0, pos |-> 0, neg |-> 0]}
    \cup {x \in [kind : {"json"}, docs : 0..MaxDocs, pos : 0..MaxDocs,
                   neg : 0..MaxDocs] :
             x.pos <= x.docs /\ x.neg <= x.docs}

AlphaSources ==
    {[kind |-> "raise", pe |-> Absent, debt |-> Absent]}
    \cup {[kind |-> "json", pe |-> p, debt |-> d] :
             p \in {Absent, Q(-5, 1), Q(30, 1), Q(100, 1)},
             d \in {Absent, Q(0, 1), Q(3, 1)}}

RiskModes == {"symbol", "technology", "industry"}

InitRisk ==
    /\ USER_DB = InitUserDB
    /\ pending_confirmations = <<>>
    /\ now = 0
    /\ events = 0
    /\ uuids = 0
    /\ audit = <<>>
    /\ halts = <<>>
    /\ resp = NoResp
    /\ tasks = <<>>
    /\ running = 0
    /\ FEATURE_RISK_CHAT = TRUE
    /\ portfolio_import
    /\ \E mode \in RiskModes, f \in FinnhubSources, n \in NytSources,
          a \in AlphaSources :
          eval = Eval("compute_risk",
                      [mode |-> mode, finnhub |-> f, nyt |-> n, alpha |-> a])

\* risk_score = compute_risk(symbol=...) / compute_risk(industry=...)
compute_risk_call ==
    /\ eval.fn = "compute_risk"
    /\ ~eval.done
    /\ eval' = [eval EXCEPT
                  !.out = compute_risk(eval.in.mode, eval.in.finnhub,
                                       eval.in.nyt, eval.in.alpha),
                  !.done = TRUE]
    /\ UNCHANGED <<USER_DB, pending_confirmations, now, events, uuids, audit,
                   halts, resp, tasks, running,
                   FEATURE_RISK_CHAT, portfolio_state>>

NextRisk == compute_risk_call

SpecRisk == InitRisk /\ [][NextRisk]_vars

----------------------------------------------------------------------------
(* backend/routers/server.py and health.py: calculate_tech_risk, the       *)
(* portfolio score (the two files hold the same function).                 *)

QMin(x, y) == IF QLt(y, x) THEN y ELSE x      \* min(x, y)
QMax(x, y) == IF QLt(x, y) THEN y ELSE x      \* max(x, y)
MaxInt(a, b) == IF b > a THEN b ELSE a

\* int(x) of a float that is not negative
int(x) == x.n \div x.d

\* line 119
diversification_score(diversification) == QMin(Q(100, 1), Q(diversification * 15, 1))

volatility_score_rising(avg_vol) == QMin(Q(100, 1), QMul(avg_vol, Q(100, 1)))

\* line 120
volatility_score(avg_vol) == QMax(Q(0, 1), QSub(Q(100, 1), QMul(avg_vol, Q(100, 1))))

\* line 121
performance_score(positive, num_companies) ==
    QMul(Q(positive, MaxInt(1, num_companies)), Q(100, 1))

\* line 122
exposure_score(positive, negative) ==
    QMin(Q(100, 1), QMul(Q(positive, MaxInt(1, negative)), Q(40, 1)))

rating_of_exclusive(final_score) ==
    IF QLt(Q(80, 1), final_score) THEN "Low Risk"
    ELSE IF QLt(Q(60, 1), final_score) THEN "Moderate Risk"
    ELSE IF QLt(Q(40, 1), final_score) THEN "Elevated Risk"
    ELSE "High Risk"

\* lines 131-138
rating_of(final_score) ==
    IF QLe(Q(80, 1), final_score) THEN "Low Risk"
    ELSE IF QLe(Q(60, 1), final_score) THEN "Moderate Risk"
    ELSE IF QLe(Q(40, 1), final_score) THEN "Elevated Risk"
    ELSE "High Risk"

\* calculate_tech_risk (total_mv and avg_perf are not used by the function):
\* the returned dict, and final_score and the four sub-scores as computed
calculate_tech_risk(avg_vol, num_companies, diversification, perf_split) ==
    LET d == diversification_score(diversification)
        v == volatility_score(avg_vol)
        p == performance_score(perf_split.positive, num_companies)
        e == exposure_score(perf_split.positive, perf_split.negative)
        final_score ==
            QAdd(QAdd(QMul(d, Q(25, 100)), QMul(v, Q(30, 100))),
                 QAdd(QMul(p, Q(25, 100)), QMul(e, Q(20, 100))))
    IN  [score |-> int(final_score),
         rating |-> rating_of(final_score),
         factors |-> [diversification |-> [score |-> int(d), weight |-> 25],
                      volatility      |-> [score |-> int(v), weight |-> 30],
                      performance     |-> [score |-> int(p), weight |-> 25],
                      exposure        |-> [score |-> int(e), weight |-> 20]],
         final_score |-> final_score,
         sub |-> [diversification |-> d, volatility |-> v,
                  performance |-> p, exposure |-> e]]

\* portfolio_vol_3m as a decimal: 0.00, 0.05, ...
Volatilities == {Q(5 * k, 100) : k \in 0..MaxVolSteps}

\* positive and negative count holdings of the portfolio
PerfSplits(num_companies) ==
    {[positive |-> a, negative |-> b] :
        a \in 0..num_companies, b \in 0..num_companies}
    \cap {x \in [positive : 0..num_companies, negative : 0..num_companies] :
             x.positive + x.negative <= num_companies}

\* two portfolios that differ in volatility only
InitTechRisk ==
    /\ USER_DB = InitUserDB
    /\ pending_confirmations = <<>>
    /\ now = 0
    /\ events = 0
    /\ uuids = 0
    /\ audit = <<>>
    /\ halts = <<>>
    /\ resp = NoResp
    /\ tasks = <<>>
    /\ running = 0
    /\ FEATURE_RISK_CHAT = TRUE
    /\ portfolio_import
    /\ \E n \in 0..MaxCompanies, d \in 0..MaxIndustries,
          v1 \in Volatilities, v2 \in Volatilities :
          \E ps \in PerfSplits(n) :
             /\ QLe(v1, v2)
             /\ eval = Eval("calculate_tech_risk",
                            [num_companies |-> n, diversification |-> d,
                             perf_split |-> ps, avg_vol |-> <<v1, v2>>])

\* risk = calculate_tech_risk(...), once for each volatility
calculate_tech_risk_call ==
    /\ eval.fn = "calculate_tech_risk"
    /\ ~eval.done
    /\ eval' = [eval EXCEPT
                  !.out = [i \in 1..2 |->
                             calculate_tech_risk(eval.in.avg_vol[i],
                                                 eval.in.num_companies,
                                                 eval.in.diversification,
                                                 eval.in.perf_split)],
                  !.done = TRUE]
    /\ UNCHANGED <<USER_DB, pending_confirmations, now, events, uuids, audit,
                   halts, resp, tasks, running,
                   FEATURE_RISK_CHAT, portfolio_state>>

NextTechRisk == calculate_tech_risk_call

SpecTechRisk == InitTechRisk /\ [][NextTechRisk]_vars

----------------------------------------------------------------------------
(* The user database under add_user calls of any kind (rbac.py): roles    *)
(* the type annotation does not admit, empty book lists, the "*" list.     *)

RbacUsers == {"user1", "guest", "ghost"}   \* guest and ghost are not in _USER_DB
RbacRoles == {"USER", "RISK", "ADMIN", "ROOT"}
RbacBooks == {<<>>, <<"*">>, <<"PM_BOOK1">>}

\* _build_context lines 58-59: the role and the books looked up for a caller
build_context(user_id) ==
    /\ eval' = [fn |-> "_build_context", in |-> user_id,
                out |-> [user_role |-> get_role(USER_DB, user_id),
                         books |-> get_books(USER_DB, user_id),
                         known |-> user_id \in DOMAIN USER_DB],
                done |-> TRUE]
    /\ UNCHANGED <<USER_DB, pending_confirmations, now, events, uuids, audit,
                   halts, resp, tasks, running,
                   FEATURE_RISK_CHAT, portfolio_state>>

NextRbac ==
    \/ \E u \in RbacUsers, role \in RbacRoles, books \in RbacBooks :
          add_user(u, role, books)
    \/ \E u \in RbacUsers : build_context(u)

SpecRbac == Init /\ [][NextRbac]_vars

----------------------------------------------------------------------------
(* guardrails.py lines 120-142: validate_stress_test_args as a function of  *)
(* its argument dict. A Python number is [t |-> "int" | "float" | "bool",   *)
(* v |-> its value]; the value of a float is a fraction, NaN or an          *)
(* infinity. bool is a subclass of int: True is 1 and False is 0.           *)

Inf(sign) == [t |-> "inf", sign |-> sign]
Num(py, v) == [t |-> py, v |-> v]

\* x < c and x > c for a float or int x and a finite c
PyLt(x, c) == IF x.t = "inf" THEN x.sign < 0 ELSE QLt(x, c)
PyGt(x, c) == IF x.t = "inf" THEN x.sign > 0 ELSE QLt(c, x)

\* isinstance(v, (int, float))
isinstance_int_float(v) == v.t \in {"int", "float", "bool"}

\* (is_valid, error_message) of validate_stress_test_args
validate_stress_test_args(args) ==
    IF ~Truthy(Get(args, "book", None))
    THEN <<FALSE, "Book is required for stress testing">>
    ELSE LET shock_pct == Get(args, "shock_pct", None)
         IN  IF shock_pct # None
             THEN IF ~isinstance_int_float(shock_pct)
                  THEN <<FALSE, "shock_pct must be a number">>
                  ELSE IF \/ PyLt(shock_pct.v, Q(-1, 1))
                          \/ PyGt(shock_pct.v, Q(1, 1))
                  THEN <<FALSE, "shock_pct must be between -1.0 and 1.0">>
                  ELSE <<TRUE, "">>
             ELSE <<TRUE, "">>

MkStressArgs(book, shock_pct) ==
    LET v == [book |-> book, shock_pct |-> shock_pct]
    IN  [k \in {x \in DOMAIN v : v[x] # Absent} |-> v[k]]

BookValues == {Absent, None, Str(<<>>), PM_BOOK1}

ShockValues ==
    {Absent, None, Str(<<"0", ".", "5">>)}
    \cup {Num("bool", Q(b, 1)) : b \in {0, 1}}
    \cup {Num("int", Q(k, 1)) : k \in -2..2}
    \cup {Num("float", Q(k, 4)) : k \in -MaxShockQuarters..MaxShockQuarters}
    \cup {Num("float", x) : x \in {NaN, Inf(1), Inf(-1)}}

InitStress ==
    /\ USER_DB = InitUserDB
    /\ pending_confirmations = <<>>
    /\ now = 0
    /\ events = 0
    /\ uuids = 0
    /\ audit = <<>>
    /\ halts = <<>>
    /\ resp = NoResp
    /\ tasks = <<>>
    /\ running = 0
    /\ FEATURE_RISK_CHAT = TRUE
    /\ portfolio_import
    /\ \E b \in BookValues, s \in ShockValues :
          eval = Eval("validate_stress_test_args", MkStressArgs(b, s))

\* is_valid, error_msg = guardrails.validate_stress_test_args(args)
validate_stress_call ==
    /\ eval.fn = "validate_stress_test_args"
    /\ ~eval.done
    /\ eval' = [eval EXCEPT !.out = validate_stress_test_args(eval.in),
                            !.done = TRUE]
    /\ UNCHANGED <<USER_DB, pending_confirmations, now, events, uuids, audit,
                   halts, resp, tasks, running,
                   FEATURE_RISK_CHAT, portfolio_state>>

NextStress == validate_stress_call

SpecStress == InitStress /\ [][NextStress]_vars

----------------------------------------------------------------------------
(* Properties *)

Ids == 1..MaxConfirms
Store == pending_confirmations
HaltsOf(c) == {k \in DOMAIN halts : halts[k].confirm_id = c}
Authorized == {"RISK", "ADMIN"}
Terminal == {"Executed", "Cancelled", "Denied", "Expired"}
IsHaltCall(call) == call.name = "halt_trading"
HasHaltCall(calls) == \E i \in DOMAIN calls : IsHaltCall(calls[i])

\* C1: oms.halt_trading is invoked only by confirm_action, on answer "yes",
\* for a confirm id present in the store whose stored user_id is the caller,
\* at a time not later than its expires_at, while the caller's current role
\* is RISK or ADMIN; a chat request never invokes it, and a chat request that
\* ends with a confirmation prompt returns a confirm id it has issued, for
\* which the executor has not been invoked.
C1_HaltOnlyThroughConfirm ==
    /\ \A k \in DOMAIN halts :
          /\ halts[k].via = "confirm"
          /\ halts[k].answer = "yes"
          /\ halts[k].present
          /\ halts[k].owner = halts[k].user_id
          /\ halts[k].at <= halts[k].expires_at
          /\ halts[k].role \in Authorized
    /\ (resp.op = "chat" /\ resp.outcome = "confirm") =>
          /\ resp.confirm_id \in 1..uuids
          /\ HaltsOf(resp.confirm_id) = {}

C1_Witness ==
    /\ Len(halts) = 1
    /\ halts[1].via = "confirm"
    /\ halts[1].outcome = "ok"

\* C2: for every confirm id the executor is invoked at most once; after a
\* redeem that ended Executed, Cancelled, Denied or Expired the entry is
\* gone, an id that was issued and is gone stays gone, and every redeem of
\* such an id answers NotFound (404) without invoking the executor.
C2_AtMostOnce ==
    /\ [](/\ \A c \in Ids : Cardinality(HaltsOf(c)) <= 1
          /\ (resp.op = "confirm" /\ resp.outcome \in Terminal)
                => resp.confirm_id \notin DOMAIN Store)
    /\ [][\A c \in Ids :
            (c <= uuids /\ c \notin DOMAIN Store) =>
               /\ c \notin DOMAIN pending_confirmations'
               /\ \A u \in Callers, a \in Answers :
                     confirm_action(u, c, a) =>
                        /\ resp'.outcome = "NotFound"
                        /\ resp'.code = 404
                        /\ halts' = halts
                        /\ audit' = audit]_vars

C2_Witness ==
    /\ resp.op = "confirm"
    /\ resp.outcome = "NotFound"
    /\ HaltsOf(resp.confirm_id) # {}

\* C3: with confirm requests in flight at the same time, the executor is
\* invoked at most once for a confirm id, the entry is in the store whenever
\* the executor is invoked for it, no del finds the entry missing, and a
\* request that has passed the checks is never left waiting while another
\* request runs.
C3_AtomicRedemption ==
    /\ \A c \in Ids : Cardinality(HaltsOf(c)) <= 1
    /\ \A k \in DOMAIN halts : halts[k].present
    /\ \A i \in DOMAIN tasks :
          /\ tasks[i].outcome # "Error"
          /\ tasks[i].pc = "exec" =>
                /\ running = i
                /\ tasks[i].confirm_id \in DOMAIN Store
                /\ Store[tasks[i].confirm_id] = tasks[i].confirm_data

C3_Witness ==
    \E i, j \in DOMAIN tasks :
        /\ i # j
        /\ tasks[i].confirm_id = tasks[j].confirm_id
        /\ tasks[i].user_id = tasks[j].user_id
        /\ tasks[i].answer = "yes" /\ tasks[j].answer = "yes"
        /\ tasks[j].overlap
        /\ tasks[i].outcome = "Executed"
        /\ tasks[j].outcome = "NotFound"
        /\ Cardinality(HaltsOf(tasks[i].confirm_id)) = 1

\* C4: a redeem of an entry by a user other than its creator answers
\* Forbidden (403) whatever the answer, invokes no executor and leaves the
\* store as it was.
C4_ForbiddenKeepsEntry ==
    [][\A u \in Callers, c \in Ids, a \in Answers :
          (/\ c \in DOMAIN Store
           /\ Store[c].user_id # u
           /\ confirm_action(u, c, a)) =>
              /\ resp'.outcome = "Forbidden"
              /\ resp'.code = 403
              /\ pending_confirmations' = pending_confirmations
              /\ halts' = halts
              /\ audit' = audit]_vars

C4_Witness ==
    /\ resp.op = "confirm"
    /\ resp.outcome = "Forbidden"
    /\ resp.confirm_id \in DOMAIN Store

\* C5 as stated: every redeem of an entry whose expires_at is earlier than
\* now answers Expired (410) whatever the answer, removes the entry and
\* invokes no executor.
C5_Original ==
    [][\A u \in Callers, c \in Ids, a \in Answers :
          (/\ c \in DOMAIN Store
           /\ Store[c].expires_at < now
           /\ confirm_action(u, c, a)) =>
              /\ resp'.outcome = "Expired"
              /\ resp'.code = 410
              /\ c \notin DOMAIN pending_confirmations'
              /\ halts' = halts]_vars

\* C5: a redeem by its owner of an entry whose expires_at is earlier than
\* now answers Expired (410) whatever the answer, removes the entry and
\* invokes no executor.
C5_ExpiredForOwner ==
    [][\A u \in Callers, c \in Ids, a \in Answers :
          (/\ c \in DOMAIN Store
           /\ Store[c].user_id = u
           /\ Store[c].expires_at < now
           /\ confirm_action(u, c, a)) =>
              /\ resp'.outcome = "Expired"
              /\ resp'.code = 410
              /\ c \notin DOMAIN pending_confirmations'
              /\ halts' = halts
              /\ audit' = audit]_vars

C5_Witness ==
    /\ resp.op = "confirm"
    /\ resp.outcome = "Expired"
    /\ resp.confirm_id \notin DOMAIN Store
    /\ resp.confirm_id <= uuids
    /\ halts = <<>>

\* C6 as stated: an approve by the owner whose role is no longer authorized
\* for the stored action answers Denied (403), removes the entry and invokes
\* no executor.
C6_Original ==
    [][\A u \in Callers, c \in Ids :
          (/\ c \in DOMAIN Store
           /\ Store[c].user_id = u
           /\ get_role(USER_DB, u) \notin Authorized
           /\ confirm_action(u, c, "yes")) =>
              /\ resp'.outcome = "Denied"
              /\ resp'.code = 403
              /\ c \notin DOMAIN pending_confirmations'
              /\ halts' = halts]_vars

\* C6: an approve, not later than expires_at, by the owner whose role is no
\* longer authorized for the stored action answers Denied (403), removes the
\* entry and invokes no executor.
C6_DeniedOnRecheck ==
    [][\A u \in Callers, c \in Ids :
          (/\ c \in DOMAIN Store
           /\ Store[c].user_id = u
           /\ now <= Store[c].expires_at
           /\ get_role(USER_DB, u) \notin Authorized
           /\ confirm_action(u, c, "yes")) =>
              /\ resp'.outcome = "Denied"
              /\ resp'.code = 403
              /\ c \notin DOMAIN pending_confirmations'
              /\ halts' = halts
              /\ audit' = audit]_vars

C6_Witness ==
    /\ resp.op = "confirm"
    /\ resp.outcome = "Denied"
    /\ resp.confirm_id \notin DOMAIN Store
    /\ halts = <<>>

\* a step that no chat request has taken: chat answers with op "chat", runs
\* only while no task is running, leaves the user table, the tasks and the
\* function under evaluation alone, and moves the clock only when it draws
\* a confirm id
NoChatStep ==
    \/ resp'.op # "chat"
    \/ running # 0
    \/ <<USER_DB, tasks, running, eval>>' # <<USER_DB, tasks, running, eval>>
    \/ now' # now /\ uuids' = uuids

\* C7: a chat request of a user whose role is USER (unknown users included)
\* whose tool calls contain a halt_trading call is answered with the
\* permission message, returns no confirm id, draws no id and leaves the
\* store as it was. (Every step gives that answer, or is no chat step,
\* or is not the step of such a request.)
C7_UserDeniedBeforeConfirmation ==
    [][\/ /\ resp'.op = "chat"
          /\ resp'.outcome = "denied"
          /\ resp'.confirm_id = 0
          /\ pending_confirmations' = pending_confirmations
          /\ uuids' = uuids
          /\ halts' = halts
       \/ NoChatStep
       \/ \A u \in Callers, calls \in ToolCallLists :
             ~(/\ get_role(USER_DB, u) = "USER"
               /\ HasHaltCall(calls)
               /\ chat(u, calls))]_vars

C7_Witness ==
    /\ resp.op = "chat"
    /\ resp.outcome = "denied"
    /\ Store = <<>>
    /\ uuids = 0

\* C8: "no" by the owner, not later than expires_at, answers status
\* "cancelled", removes the entry and invokes no executor, whatever the
\* stored arguments and the owner's current role.
C8_NoCancels ==
    [][\A u \in Callers, c \in Ids :
          (/\ c \in DOMAIN Store
           /\ Store[c].user_id = u
           /\ now <= Store[c].expires_at
           /\ confirm_action(u, c, "no")) =>
              /\ resp'.status = "cancelled"
              /\ resp'.code = 200
              /\ c \notin DOMAIN pending_confirmations'
              /\ halts' = halts
              /\ audit' = audit]_vars

\* cancelled while no caller holds an authorized role any more
C8_Witness ==
    /\ resp.op = "confirm"
    /\ resp.status = "cancelled"
    /\ resp.outcome = "Cancelled"
    /\ resp.confirm_id \notin DOMAIN Store
    /\ \A u \in Callers : get_role(USER_DB, u) = "USER"
    /\ halts = <<>>

\* C9 as stated: a confirm response with status "executed" is given only for
\* an executor call that took effect (it did not raise).
C9_NoOptimisticSuccess ==
    (resp.op = "confirm" /\ resp.status = "executed") =>
        \E k \in HaltsOf(resp.confirm_id) : halts[k].outcome = "ok"

\* C10: a halt request of a RISK user on a book with a valid reason creates
\* a confirmation, and its "yes" by the same user not later than expires_at
\* answers status "executed" with a non-empty ticket id and appends exactly
\* one audit record, a "success" record of halt_trading with that ticket.
C10_EndToEndHalt ==
    [][\A u \in Callers :
          /\ (/\ get_role(USER_DB, u) = "RISK"
              /\ chat(u, <<Call("halt_trading", ArgsOk)>>)) =>
                 /\ resp'.outcome = "confirm"
                 /\ resp'.confirm_id \in DOMAIN pending_confirmations'
                 /\ resp'.confirm_id \notin DOMAIN Store
                 /\ pending_confirmations'[resp'.confirm_id].user_id = u
                 /\ pending_confirmations'[resp'.confirm_id].tool_args = ArgsOk
                 /\ pending_confirmations'[resp'.confirm_id].expires_at >= now + TTL
                 /\ audit' = audit
          /\ \A c \in Ids :
                (/\ c \in DOMAIN Store
                 /\ Store[c].user_id = u
                 /\ Store[c].tool_args = ArgsOk
                 /\ now <= Store[c].expires_at
                 /\ get_role(USER_DB, u) = "RISK"
                 /\ confirm_action(u, c, "yes")) =>
                    /\ resp'.status = "executed"
                    /\ Truthy(resp'.ticket_id)
                    /\ audit' = Append(audit,
                                       [user_id |-> u, action |-> "halt_trading",
                                        ticket_id |-> resp'.ticket_id,
                                        result |-> "success"])]_vars

C10_Witness ==
    /\ resp.op = "confirm"
    /\ resp.status = "executed"
    /\ Truthy(resp.ticket_id)
    /\ Len(audit) = 1
    /\ audit[1].result = "success"
    /\ audit[1].ticket_id = resp.ticket_id
    /\ Len(halts) = 1
    /\ halts[1].role = "RISK"
    /\ halts[1].args = ArgsOk

\* C11 as stated: every entry the chat endpoint has inserted into the
\* pending store has expires_at exactly TTL (300 seconds) after its
\* created_at.
C11_ExactTTL ==
    \A c \in DOMAIN Store : Store[c].expires_at = Store[c].created_at + TTL

\* the first halt_trading call of a response of the language model
FirstHalt(calls) ==
    CHOOSE i \in DOMAIN calls :
        IsHaltCall(calls[i]) /\ \A j \in 1..(i - 1) : ~IsHaltCall(calls[j])

\* the responses whose halt_trading call has arguments that
\* validate_halt_trading_args rejects
RejectedCalls ==
    {calls \in ToolCallLists :
        /\ HasHaltCall(calls)
        /\ ~validate_halt_trading_args(calls[FirstHalt(calls)].args)[1]}

\* the rejection reason of each of them
RejectionReason ==
    [calls \in RejectedCalls |->
        validate_halt_trading_args(calls[FirstHalt(calls)].args)[2]]

\* the read-only calls that precede the rejected call
CallsBefore ==
    [calls \in RejectedCalls |-> FirstHalt(calls) - 1]

\* a chat request of a caller allowed to halt whose halt_trading call has
\* arguments that validate_halt_trading_args rejects
RejectedHalt(u, calls) ==
    /\ calls \in RejectedCalls
    /\ can_execute(USER_DB, u, "halt_trading")

\* C12 as stated: a chat request whose halt_trading arguments are rejected
\* returns the rejection reason, inserts nothing into the pending store,
\* writes no audit record and executes no tool. (Every step gives that
\* answer, or is no chat step, or is not the step of such a request.)
C12_Original ==
    [][\/ /\ resp'.op = "chat"
          /\ resp'.outcome = "invalid"
          /\ pending_confirmations' = pending_confirmations
          /\ audit' = audit
          /\ halts' = halts
          /\ resp'.ran = 0
       \/ NoChatStep
       \/ \A u \in Callers, calls \in RejectedCalls :
             ~(RejectedHalt(u, calls) /\ chat(u, calls))]_vars

\* C12: a chat request whose halt_trading arguments are rejected returns the
\* rejection reason of validate_halt_trading_args and no confirm id, inserts
\* nothing into the pending store, draws no id, writes no audit record, does
\* not invoke the halt executor and executes no tool call from the rejected
\* call on: the only tools it has run are the read-only calls that precede
\* the rejected call in the same response. (Every step is no chat
\* step, or for every caller and response either is not the step of such
\* a request or gives that answer.)
C12_RejectionNoSideEffects ==
    [][\/ NoChatStep
       \/ \A u \in Callers, calls \in RejectedCalls :
             \/ ~RejectedHalt(u, calls)
             \/ /\ resp'.outcome = "invalid"
                /\ resp'.detail = RejectionReason[calls]
                /\ resp'.detail # ""
                /\ resp'.ran = CallsBefore[calls]
                /\ resp'.confirm_id = 0
                /\ pending_confirmations' = pending_confirmations
                /\ uuids' = uuids
                /\ audit' = audit
                /\ halts' = halts
             \/ ~chat(u, calls)]_vars

\* a rejection after a read-only tool of the same response has run
C12_Witness ==
    /\ resp.op = "chat"
    /\ resp.outcome = "invalid"
    /\ resp.detail = "At least one of desk, book, or symbol must be specified"
    /\ resp.ran = 1
    /\ Store = <<>>
    /\ uuids = 0
    /\ audit = <<>>

Validated == eval.fn = "validate_halt_trading_args" /\ eval.done

\* at least one of desk, book, symbol is a non-empty string
HasTarget(args) ==
    \E k \in HaltTargets \cap DOMAIN args : args[k].t = "str" /\ args[k].s # <<>>

NonBlank(s) == {i \in DOMAIN s : s[i] # " "}
Min(S) == CHOOSE x \in S : \A y \in S : x <= y
Max(S) == CHOOSE x \in S : \A y \in S : x >= y

\* the length of what is left of s without its leading and trailing blanks
StrippedLen(s) ==
    IF NonBlank(s) = {} THEN 0 ELSE Max(NonBlank(s)) - Min(NonBlank(s)) + 1

HasReason(args) == "reason" \in DOMAIN args /\ args["reason"].t = "str"

\* C13 as stated: validate_halt_trading_args accepts exactly the dicts with
\* a non-empty desk, book or symbol and a reason string of at least 10
\* characters.
C13_Original ==
    Validated =>
        (eval.out[1] <=>
            /\ HasTarget(eval.in)
            /\ HasReason(eval.in)
            /\ Len(eval.in["reason"].s) >= MinReasonLen)

\* C13: validate_halt_trading_args accepts exactly the dicts with a
\* non-empty desk, book or symbol and a reason string that has at least 10
\* characters once its leading and trailing blanks are removed; it answers
\* with an empty message when it accepts and a non-empty one when it rejects;
\* {book} alone and {book, reason of 9 characters} are rejected and {book,
\* reason of 10 non-blank characters} is accepted.
C13_ValidIffTargetAndReason ==
    Validated =>
        /\ eval.out[1] <=>
              /\ HasTarget(eval.in)
              /\ HasReason(eval.in)
              /\ StrippedLen(eval.in["reason"].s) >= MinReasonLen
        /\ eval.out[1] <=> (eval.out[2] = "")
        /\ eval.in = [book |-> Str(<<"EQ">>)] => ~eval.out[1]
        /\ eval.in = [book |-> Str(<<"EQ">>), reason |-> Str(Rep("x", 9))] => ~eval.out[1]
        /\ eval.in = [book |-> Str(<<"EQ">>), reason |-> Str(Rep("x", 10))] => eval.out[1]

\* a reason of 11 characters, 9 of them between the blanks, is rejected
C13_Witness ==
    /\ Validated
    /\ eval.in = [book |-> Str(<<"EQ">>),
                  reason |-> Str(<<" ">> \o Rep("x", 9) \o <<" ">>)]
    /\ eval.out = <<FALSE, "Reason must be at least 10 characters">>

\* C14: a user that is not in the user database, whatever users have been
\* added, has role USER and the non-empty default book list and is allowed
\* no privileged action; get_role answers USER, RISK or ADMIN for every
\* user, also one stored with another role.
C14_UnknownUsersLeastPrivilege ==
    /\ \A u \in RbacUsers \cup Callers :
          u \notin DOMAIN USER_DB =>
             /\ get_role(USER_DB, u) = "USER"
             /\ get_books(USER_DB, u) = <<"PM_BOOK1">>
             /\ \A a \in PrivilegedNames : ~can_execute(USER_DB, u, a)
    /\ \A u \in RbacUsers \cup DOMAIN USER_DB : get_role(USER_DB, u) \in ValidRoles
    /\ eval.fn = "_build_context" =>
          /\ eval.out.user_role \in ValidRoles
          /\ ~eval.out.known =>
                eval.out.user_role = "USER" /\ eval.out.books # <<>>

\* ghost looked up after guest was made ADMIN and user1 was stored as ROOT
C14_Witness ==
    /\ "ghost" \notin DOMAIN USER_DB
    /\ "guest" \in DOMAIN USER_DB /\ USER_DB["guest"].role = "ADMIN"
    /\ USER_DB["user1"].role = "ROOT"
    /\ eval.fn = "_build_context" /\ eval.in = "ghost"
    /\ eval.out.user_role = "USER"
    /\ eval.out.books = <<"PM_BOOK1">>

\* C15 as stated: every invocation of the halt executor, whether it ends
\* with a ticket or with an exception, has appended exactly one audit
\* record, with result "success" or "failed".
C15_EveryAttemptAudited ==
    /\ Len(audit) = Len(halts)
    /\ \A i \in DOMAIN audit : audit[i].result \in {"success", "failed"}

RiskDone == eval.fn = "compute_risk" /\ eval.done

\* C16 as stated: for every combination of answers of the three sources,
\* failures included, compute_risk returns a number in [0, 1].
C16_ScoreInUnitRange ==
    RiskDone =>
        /\ ~eval.out.raised
        /\ ~IsNaN(eval.out.value)
        /\ QLe(Q(0, 1), eval.out.value)
        /\ QLe(eval.out.value, Q(1, 1))

\* C17: compute_risk takes the weights (0.6, 0.4) when the absolute value
\* of the averaged sentiment is below 0.2 and (0.7, 0.3) otherwise, for an
\* average of exactly 0.2 too; the two weights sum to 1.
C17_WeightSelection ==
    (RiskDone /\ ~eval.out.raised) =>
        LET avg == eval.out.avg_sentiment
            small == ~IsNaN(avg) /\ 5 * Abs(avg.n) < avg.d
        IN  /\ small =>
                  eval.out.w_sentiment = Q(6, 10) /\ eval.out.w_fund = Q(4, 10)
            /\ ~small =>
                  eval.out.w_sentiment = Q(7, 10) /\ eval.out.w_fund = Q(3, 10)
            /\ QAdd(eval.out.w_sentiment, eval.out.w_fund) = Q(1, 1)

\* an averaged sentiment of exactly 0.2
C17_Witness ==
    /\ RiskDone
    /\ ~eval.out.raised
    /\ eval.out.avg_sentiment = Q(2, 10)
    /\ eval.out.w_sentiment = Q(7, 10)
    /\ eval.out.w_fund = Q(3, 10)

TechRiskDone == eval.fn = "calculate_tech_risk" /\ eval.done

Ratings == <<"High Risk", "Elevated Risk", "Moderate Risk", "Low Risk">>
Rank(rating) == CHOOSE i \in DOMAIN Ratings : Ratings[i] = rating

\* the bucket of a score x/y: 4 from 80, 3 from 60, 2 from 40, 1 below
Bucket(x, y) ==
    IF x >= 80 * y THEN 4 ELSE IF x >= 60 * y THEN 3 ELSE IF x >= 40 * y THEN 2 ELSE 1

\* C18: every final score of calculate_tech_risk has exactly one rating,
\* Low Risk from 80, Moderate Risk from 60, Elevated Risk from 40, High Risk
\* below, the boundaries 80, 60 and 40 in the higher bucket; the final
\* score is in the range 0 to 100; a higher final score never has a lower
\* rating; the reported integer score is in the bucket of the rating.
C18_RatingPartition ==
    TechRiskDone =>
        /\ \A i \in 1..2 :
              LET r == eval.out[i]
              IN  /\ r.rating \in {Ratings[k] : k \in DOMAIN Ratings}
                  /\ Rank(r.rating) = Bucket(r.final_score.n, r.final_score.d)
                  /\ Rank(r.rating) = Bucket(r.score, 1)
                  /\ QLe(Q(0, 1), r.final_score) /\ QLe(r.final_score, Q(100, 1))
        /\ QLe(eval.out[2].final_score, eval.out[1].final_score)
              => Rank(eval.out[2].rating) <= Rank(eval.out[1].rating)

\* final scores of exactly 80 and just below 80
C18_Witness ==
    /\ TechRiskDone
    /\ eval.out[1].final_score = Q(80, 1)
    /\ eval.out[1].rating = "Low Risk"
    /\ eval.out[1].score = 80
    /\ QLt(eval.out[2].final_score, Q(80, 1))
    /\ eval.out[2].score = 78
    /\ eval.out[2].rating = "Moderate Risk"

\* C19 as stated: a failure of a source (timeout, rate limit, malformed or
\* empty answer, exception in the client) never leaves its adapter as an
\* exception: compute_risk returns.
C19_AdapterFailuresAbsorbed ==
    (RiskDone /\ \/ eval.in.finnhub.kind \in {"raise", "empty", "no_mspr"}
                 \/ eval.in.nyt.kind = "raise"
                 \/ eval.in.alpha.kind = "raise")
        => ~eval.out.raised

StressDone == eval.fn = "validate_stress_test_args" /\ eval.done

\* the book is a non-empty string
HasBook(args) ==
    "book" \in DOMAIN args /\ args["book"].t = "str" /\ args["book"].s # <<>>

\* no shock_pct is given
NoShock(args) == "shock_pct" \notin DOMAIN args \/ args["shock_pct"] = None

\* v is a number n/d with -1 <= n/d <= 1
WithinUnit(v) == v.t = "num" /\ -v.d <= v.n /\ v.n <= v.d

\* C21: validate_stress_test_args fails unless a target book is present,
\* and when shock_pct is given it fails unless shock_pct is a number
\* (an int, a float or a bool) that lies within [-1.0, 1.0], both bounds
\* accepted; otherwise it succeeds.
C21_StressArgs ==
    StressDone =>
        (eval.out[1] <=>
            /\ HasBook(eval.in)
            /\ \/ NoShock(eval.in)
               \/ /\ eval.in["shock_pct"].t \in {"int", "float", "bool"}
                  /\ WithinUnit(eval.in["shock_pct"].v))

\* a step of a chat or of a confirm request
RequestStep ==
    \/ \E u \in FlagCallers, calls \in FlagToolCallLists : chat(u, calls)
    \/ \E u \in FlagCallers, c \in 1..MaxConfirms, a \in Answers :
          confirm_action(u, c, a)

\* C22: while the FEATURE_RISK_CHAT flag is off, every chat request and
\* every confirm request is answered with 404 "not enabled" and has no
\* effect: the pending-confirmation store stays as it is, no id is drawn,
\* no audit record is written, no tool is run and the executor is not
\* invoked. (Every step is taken with the flag on, or has that answer and
\* no effect, or is not the step of a request.)
C22_FlagOffNoEffect ==
    [][\/ FEATURE_RISK_CHAT
       \/ /\ resp'.op \in {"chat", "confirm"}
          /\ resp'.code = 404
          /\ resp'.detail = "Risk chat feature is not enabled"
          /\ resp'.status = ""
          /\ resp'.ticket_id = None
          /\ resp'.ran = 0
          /\ pending_confirmations' = pending_confirmations
          /\ uuids' = uuids
          /\ audit' = audit
          /\ halts' = halts
       \/ ~RequestStep]_vars

\* with the flag off, a confirm request for a live confirmation has been
\* answered "not enabled"; the confirmation is still in the store and
\* nothing has been executed
C22_Witness ==
    /\ ~FEATURE_RISK_CHAT
    /\ resp.op = "confirm"
    /\ resp.outcome = "NotEnabled"
    /\ resp.confirm_id \in DOMAIN pending_confirmations
    /\ now <= pending_confirmations[resp.confirm_id]["expires_at"]
    /\ halts = <<>>

\* C23 as stated: the first confirm call for the id of an entry whose
\* expires_at has passed removes the entry from the store.
C23_Original ==
    [][\A u \in FlagCallers, c \in Ids, a \in Answers :
          (/\ c \in DOMAIN Store
           /\ now > Store[c].expires_at
           /\ confirm_action(u, c, a)) =>
              c \notin DOMAIN pending_confirmations']_vars

\* C23: an entry whose expires_at has passed stays in the store while the
\* clock alone moves, and is destroyed at the next lookup of its id that
\* reaches the expiry check: the first confirm call for that id made by its
\* owner while the feature is enabled answers Expired (410), whatever the
\* answer, and removes that entry and no other one.
C23_LazyExpiry ==
    [][/\ (now' # now /\ uuids' = uuids) =>
             pending_confirmations' = pending_confirmations
       /\ \A u \in FlagCallers, c \in Ids, a \in Answers :
             (/\ c \in DOMAIN Store
              /\ now > Store[c].expires_at
              /\ Store[c].user_id = u
              /\ FEATURE_RISK_CHAT
              /\ confirm_action(u, c, a)) =>
                 /\ resp'.outcome = "Expired"
                 /\ resp'.code = 410
                 /\ pending_confirmations' = Del(Store, c)]_vars

\* the owner's lookup after the expiry has emptied the store
C23_Witness ==
    /\ FEATURE_RISK_CHAT
    /\ resp.op = "confirm"
    /\ resp.code = 410
    /\ uuids >= 1
    /\ now > TTL
    /\ pending_confirmations = <<>>

\* the confirm requests that would run the executor against store S now
WouldExecute(S) ==
    {<<u, c>> \in Callers \X Ids :
        Decide(S, USER_DB, now, u, c, "yes") = "Execute"}

\* C24: the sweep removes exactly the entries with expires_at earlier than
\* now and changes nothing else; it never removes an entry that
\* confirm_action would still accept at the same instant, so the confirm
\* requests that would execute are the same after the sweep as before it;
\* and no executor call is ever made after the expires_at of its
\* confirmation, whether the sweep runs or not.
C24_SweepNeutral ==
    /\ [](\A k \in DOMAIN halts :
             halts[k].via = "confirm" => halts[k].at <= halts[k].expires_at)
    /\ [][cleanup_expired_confirmations =>
            /\ \A c \in DOMAIN Store :
                  /\ c \in DOMAIN pending_confirmations' <=>
                        ~(Store[c].expires_at < now)
                  /\ c \in DOMAIN pending_confirmations' =>
                        pending_confirmations'[c] = Store[c]
                  /\ c \notin DOMAIN pending_confirmations' =>
                        \A u \in Callers, a \in Answers :
                           Decide(Store, USER_DB, now, u, c, a)
                              \notin {"Execute", "Cancelled", "Denied"}
            /\ DOMAIN pending_confirmations' \subseteq DOMAIN Store
            /\ WouldExecute(pending_confirmations') = WouldExecute(Store)
            /\ halts' = halts
            /\ audit' = audit]_vars

\* the sweep has removed an expired confirmation that nobody had redeemed,
\* and nothing has been executed
C24_Witness ==
    /\ resp.op = "chat"
    /\ resp.outcome = "confirm"
    /\ resp.confirm_id \notin DOMAIN Store
    /\ now > TTL
    /\ halts = <<>>

C26_ApproveExecutesStored ==
    [][\A u \in Callers, c \in Ids :
          (/\ Decide(Store, USER_DB, now, u, c, "yes") = "Execute"
           /\ confirm_action(u, c, "yes")) =>
              /\ Len(halts') = Len(halts) + 1
              /\ halts'[Len(halts')].args = Store[c].tool_args
              /\ halts'[Len(halts')].user_id = Store[c].user_id
              /\ c \notin DOMAIN pending_confirmations'
              /\ resp'.status = "executed"
              /\ halts'[Len(halts')].outcome = "ok"
              /\ resp'.ticket_id = halts'[Len(halts')].ticket
              /\ Truthy(resp'.ticket_id)]_vars

\* for each response, the index of its first halt_trading call, one more
\* than its length if it has none
StopsAt ==
    [calls \in LoopToolCallLists |->
        IF HasHaltCall(calls) THEN FirstHalt(calls) ELSE Len(calls) + 1]

\* what a chat request of u with the response calls has done when it has
\* stopped at the first halt_trading call
StoppedAtFirstHalt(u, calls) ==
    LET added == DOMAIN pending_confirmations' \ DOMAIN Store
        k == StopsAt[calls]
    IN  /\ resp'.ran = k - 1
        /\ halts' = halts
        /\ audit' = audit
        /\ uuids' - uuids = Cardinality(added)
        /\ Cardinality(added) <= 1
        /\ DOMAIN Store \subseteq DOMAIN pending_confirmations'
        /\ (k <= Len(calls)) <=> resp'.outcome \in {"denied", "invalid", "confirm"}
        /\ (added # {}) <=> resp'.outcome = "confirm"
        /\ \A c \in added :
              /\ resp'.confirm_id = c
              /\ pending_confirmations'[c].tool_args = calls[k].args
              /\ pending_confirmations'[c].user_id = u

\* C27: a chat request handles the tool calls of the response in order and
\* stops at the first halt_trading call: it has run exactly the calls that
\* precede that call, it inserts at most one pending confirmation, one
\* exactly when that call is turned into a confirmation, holding the
\* arguments of that call, it draws no second id, and it never invokes the
\* halt executor; a response without a halt_trading call has all its calls
\* run and inserts nothing. (Every step gives no chat answer, or for every
\* caller and response either has done that or is not the step of that
\* request.)
C27_StopsAtFirstHalt ==
    [][\/ resp'.op # "chat"
       \/ \A u \in LoopCallers, calls \in LoopToolCallLists :
             \/ StoppedAtFirstHalt(u, calls)
             \/ ~chat_bounded(u, calls, MaxLive)]_vars

\* a request has run the one read-only call in front of the first halt
\* request and has left exactly one confirmation behind
C27_Witness ==
    /\ resp.op = "chat"
    /\ resp.outcome = "confirm"
    /\ resp.ran = 1
    /\ Cardinality(DOMAIN Store) = 1
    /\ uuids = 1
    /\ halts = <<>>

\* C28: every entry of the pending-confirmation store has tool_name
\* "halt_trading", arguments that validate_halt_trading_args accepts and an
\* expires_at later than its created_at; and every entry the chat endpoint
\* adds is owned by a user whose role is RISK or ADMIN at that moment, and
\* nothing but a chat answer adds an entry.
C28_StoredEntriesWellFormed ==
    /\ [](\A c \in DOMAIN Store :
             /\ Store[c].tool_name = "halt_trading"
             /\ validate_halt_trading_args(Store[c].tool_args)[1]
             /\ Store[c].expires_at > Store[c].created_at)
    /\ [][\A c \in DOMAIN pending_confirmations' \ DOMAIN Store :
             /\ resp'.op = "chat"
             /\ resp'.confirm_id = c
             /\ get_role(USER_DB, pending_confirmations'[c].user_id) \in Authorized
             /\ get_role(USER_DB', pending_confirmations'[c].user_id) \in Authorized]_vars

\* an entry is in the store whose owner has lost the role since it was
\* created
C28_Witness ==
    \E c \in DOMAIN Store :
        /\ get_role(USER_DB, Store[c].user_id) = "USER"
        /\ Store[c].tool_name = "halt_trading"
        /\ Store[c].expires_at >= Store[c].created_at + TTL

AgreeDone == eval.fn = "halt_trading" /\ eval.done

\* C29: for every argument dict over the keys desk, book, symbol and
\* reason, oms.halt_trading raises no ValueError exactly when
\* validate_halt_trading_args accepts the dict, and it raises nothing else:
\* arguments that pass the guardrail are accepted by the executor.
C29_GuardrailAgreesWithExecutor ==
    AgreeDone =>
        /\ eval.out.is_valid <=> eval.out.executor # "ValueError"
        /\ eval.out.executor \in {"ok", "ValueError"}
        /\ eval.out.is_valid <=> eval.out.executor = "ok"

\* a reason of 9 characters between two blanks is refused by both
C29_Witness ==
    /\ AgreeDone
    /\ eval.in = [book |-> Str(<<"EQ">>),
                  reason |-> Str(<<" ">> \o Rep("x", 9) \o <<" ">>)]
    /\ ~eval.out.is_valid
    /\ eval.out.executor = "ValueError"

\* the tickers marked active in a companies_store
ActiveTickers(store) == {t \in DOMAIN store : store[t].active}

\* C30: in both portfolio routers, after any sequence of add_company,
\* update_shares and remove_company calls the tickers of the symbol map are
\* exactly the tickers marked active in companies_store
C30_SymbolsAreActive ==
    /\ DOMAIN TECH_SYMBOLS = ActiveTickers(server_companies_store)
    /\ DOMAIN HEALTHCARE_SYMBOLS = ActiveTickers(health_companies_store)
====
